---- MODULE Spec2Model ----
(***************************************************************************)
(* Model of the facial-authentication server and of the vector math it is  *)
(* built on (server routes, storage, client distance library), and of the  *)
(* client's authentication page and camera viewport.                       *)
(*                                                                         *)
(* Numbers.  Descriptor components are integers counting TENTHS, so the    *)
(* component 6 stands for 0.6 and the login threshold 0.6 is 6.  A         *)
(* euclidean distance is carried by its radicand (the sum of squared       *)
(* differences, in hundredths): Math.sqrt is strictly increasing, so       *)
(* sqrt(s) < 0.6 is s < 0.36, i.e. radicand < 6 * 6.                       *)
(*                                                                         *)
(* JavaScript values.  A request field is a tagged value: an array of      *)
(* numbers, undefined (field absent), null, or a non-empty string (a value *)
(* that is supplied but is no array of numbers).                           *)
(*                                                                         *)
(* Requests.  Register, login, compare and match are served in one step    *)
(* each (their awaits are single storage calls); a response stays in resp  *)
(* until it is delivered.  Group authentication is served in several       *)
(* steps, one per answer of a member's identity lookup, in any order.      *)
(* A user document carries its id, e-mail and descriptor; the user name,   *)
(* the names and the password hash play no part in the comparisons.  The   *)
(* database answers every call, except in the match served lookup by       *)
(* lookup, where a lookup may fail.  Where the interleaving of requests    *)
(* matters, registration and the face-sample route are served await by     *)
(* await, next to the start-up of the storage.                             *)
(*                                                                         *)
(* Strings.  The codec works on strings, which are sequences of            *)
(* characters; its conversions (JSON, base64, hex) are computed.           *)
(***************************************************************************)
EXTENDS Integers, Sequences, FiniteSets, TLC

\* ------------------------------------------------------------------ bounds
\* Longest descriptor of a request body, and so of a stored user.
MaxLen == 1
\* Longest vector handed to the vector math on its own.
MaxVecLen == 2
\* Largest member batch of a group authentication request.
MaxBatch == 2

\* Component values, in tenths: 0, 0.5 (below the threshold) and 0.6 (on it).
Vals == {0, 5, 6}
\* The e-mail addresses of requests; "bob" is a string that is no e-mail address.
Emails == {"a@x.io", "bob"}
\* The e-mail field of a body that carries none (undefined).
NoEmail == "<undefined>"

\* ------------------------------------------------------------- JS values
Arr(s) == [tag |-> "array", v |-> s]
Undefined == [tag |-> "undefined", v |-> <<>>]
Null == [tag |-> "null", v |-> <<>>]
\* A supplied value that is no array of numbers (a non-empty string).
Junk == [tag |-> "string", v |-> <<>>]

\* JavaScript truthiness: every array (also the empty one) and every
\* non-empty string is truthy; undefined and null are falsy.
Truthy(x) == x.tag \in {"array", "string"}

Vectors(n) == UNION {[1..k -> Vals] : k \in 0..n}
Descriptors == {Arr(s) : s \in Vectors(MaxLen)}
\* The vectors handed to the vector math on its own: also a negative component.
MathVals == Vals \cup {-5}
MathVectors == UNION {[1..k -> MathVals] : k \in 0..MaxVecLen}
\* What a request body can carry in a descriptor field.
BodyValues == Descriptors \cup {Undefined, Junk}

\* z.array(z.number()).safeParse
faceDescriptorSchema(x) == x.tag = "array"
\* z.string().email()
IsEmail(e) == e = "a@x.io"

\* ------------------------------------------------------------ vector math
RECURSIVE Sum(_)
\* Array.prototype.reduce((sum, val) => sum + val, 0), over the terms
Sum(terms) == IF terms = <<>> THEN 0 ELSE Head(terms) + Sum(Tail(terms))

Abs(x) == IF x < 0 THEN -x ELSE x
Min(x, y) == IF x < y THEN x ELSE y

Thrown(msg) == [thrown |-> TRUE, msg |-> msg, val |-> 0, nan |-> FALSE, den |-> 1]
\* A finite number val / sqrt(den); den = 1 for the distances.
Num(val) == [thrown |-> FALSE, msg |-> "", val |-> val, nan |-> FALSE, den |-> 1]
Frac(val, den) == [thrown |-> FALSE, msg |-> "", val |-> val, nan |-> FALSE, den |-> den]
NaN == [thrown |-> FALSE, msg |-> "", val |-> 0, nan |-> TRUE, den |-> 1]

SqDiff(a, b) == Sum([i \in 1..Len(a) |-> (a[i] - b[i]) * (a[i] - b[i])])
AbsDiff(a, b) == Sum([i \in 1..Len(a) |-> Abs(a[i] - b[i])])
Dot(a, b) == Sum([i \in 1..Len(a) |-> a[i] * b[i]])

\* A distance function that skips the length check: the longer vector is
\* cut to the shorter one.
euclideanDistanceNoCheck(a, b) ==
  LET n == Min(Len(a), Len(b)) IN Num(SqDiff(SubSeq(a, 1, n), SubSeq(b, 1, n)))

\* Server: the radicand of Math.sqrt(a.reduce(... Math.pow(val - b[i], 2)))
euclideanDistance(a, b) ==
  IF Len(a) # Len(b) THEN Thrown("Vectors must be of the same length")
  ELSE Num(SqDiff(a, b))

manhattanDistance(a, b) ==
  IF Len(a) # Len(b) THEN Thrown("Vectors must be of the same length")
  ELSE Num(AbsDiff(a, b))

\* Server: dotProduct / (magnitudeA * magnitudeB), with no guard on a zero
\* magnitude: the dot product is then 0 as well and 0 / 0 is NaN.
\* The value is Dot / sqrt(|a|^2 * |b|^2).
cosineSimilarity(a, b) ==
  IF Len(a) # Len(b) THEN Thrown("Vectors must be of the same length")
  ELSE IF Dot(a, a) * Dot(b, b) = 0 THEN NaN
  ELSE Frac(Dot(a, b), Dot(a, a) * Dot(b, b))

\* Client library (lib/distance.ts)
clientEuclideanDistance(a, b) ==
  IF Len(a) # Len(b) THEN Thrown("Vectors must have the same dimensions")
  ELSE Num(SqDiff(a, b))

\* The client's manhattan distance without its length check: the sum runs
\* over the indices of a, and a missing b[i] is undefined, so the sum is NaN
\* when b is shorter and ignores the tail of b when b is longer.
clientManhattanDistanceNoCheck(a, b) ==
  IF Len(b) < Len(a) THEN NaN ELSE Num(AbsDiff(a, SubSeq(b, 1, Len(a))))

clientManhattanDistance(a, b) ==
  IF Len(a) # Len(b) THEN Thrown("Vectors must have the same dimensions")
  ELSE Num(AbsDiff(a, b))

clientCosineSimilarity(a, b) ==
  IF Len(a) # Len(b) THEN Thrown("Vectors must have the same dimensions")
  ELSE IF Dot(a, a) = 0 \/ Dot(b, b) = 0 THEN Num(0)
  ELSE Frac(Dot(a, b), Dot(a, a) * Dot(b, b))

\* The login threshold 0.6, in tenths.
Threshold == 6
\* distance <= 0.6
BelowThresholdInclusive(d) == d.val <= Threshold * Threshold

\* distance < 0.6, on the radicand
BelowThreshold(d) == d.val < Threshold * Threshold

\* ---------------------------------------------------------------- state
VARIABLES
  users,        \* storage: the user documents, in insertion order
  faceSamples,  \* storage: the face sample documents, in insertion order
  counters,     \* storage: [userId, faceSampleId], the next ids to hand out
  resp,         \* the response of the request served last, until delivered
  group,        \* the group authentication request in flight
  trial,        \* the vector-math call made last: [fn, a, b, out]
  matchRun,     \* the match request in flight
  coding,       \* the codec call made last
  serving,      \* the requests served step by step, and the storage start-up
  page,         \* the authentication page of the client
  camera        \* the camera viewport of the client: its effect runs

vars == <<users, faceSamples, counters, resp, group, trial, matchRun, coding,
          serving, page, camera>>

NoToken == [user_id |-> 0, email |-> ""]
NoBody == [kind |-> "none"]
NoResp == [op |-> "none", req |-> [kind |-> "none"], status |-> 0,
           message |-> "", token |-> NoToken, body |-> NoBody]
Resp(op, req, status, message, token, body) ==
  [op |-> op, req |-> req, status |-> status, message |-> message,
   token |-> token, body |-> body]

GroupIdle == [phase |-> "idle", req |-> [kind |-> "none"], slots |-> <<>>,
              pending |-> {}, order |-> <<>>, lookups |-> 0]
NoTrial == [fn |-> "none", a |-> <<>>, b |-> <<>>, out |-> Num(0)]
MatchIdle == [phase |-> "idle", req |-> [kind |-> "none"], allFaces |-> <<>>,
              rows |-> <<>>, pending |-> {}, outOfOrder |-> FALSE]
NoCoding == [fn |-> "none", v |-> <<>>, key |-> <<>>, time |-> 0, iv |-> <<>>,
             token |-> <<>>, input |-> <<>>,
             out |-> [thrown |-> FALSE, msg |-> "", v |-> <<>>]]
\* The storage has finished its start-up and no request is served step by step.
NoServing == [init |-> [pc |-> "done", last |-> 0], calls |-> <<>>]
\* The authentication page as it is first rendered: the useState and useRef
\* initial values, no handler running, no request sent.
NoRequest == [email |-> "", faceDescriptor |-> Undefined]
NoPage == [usePassword |-> FALSE, hasFace |-> FALSE, captureStep |-> 0,
           capturedFaces |-> <<>>, isAuthenticating |-> FALSE,
           videoRef |-> Null, handler |-> "none", awaiting |-> "none",
           request |-> NoRequest, captures |-> <<>>, completed |-> 0,
           invoked |-> "none", sent |-> "none", loggedIn |-> FALSE,
           toast |-> ""]
\* The camera viewport before its effect has run: no stream on the video
\* element, no track live.
NoCamera == [runs |-> <<>>, srcObject |-> 0, live |-> {}]

\* -------------------------------------------------------------- storage
\* getUserByEmail: the first document with that e-mail, as a set of at most
\* one user.
getUserByEmail(us, email) ==
  LET hits == {i \in 1..Len(us) : us[i].email = email}
  IN IF hits = {} THEN {}
     ELSE {us[CHOOSE i \in hits : \A j \in hits : i <= j]}

\* getUser: the document with that id.
getUser(us, id) == {us[i] : i \in {j \in 1..Len(us) : us[j].id = id}}

\* createUser: id = counters.userId++, faceDescriptor: faceDescriptor || null
createUser(email, fd) ==
  [id |-> counters.userId, email |-> email,
   faceDescriptor |-> IF Truthy(fd) THEN fd ELSE Null]

\* addFaceSample: id = counters.faceSampleId++
addFaceSample(userId, descriptor) ==
  [id |-> counters.faceSampleId, userId |-> userId, descriptor |-> descriptor]

\* updateUserFaceDescriptor: findOneAndUpdate({ id }, { faceDescriptor, faceDataEncrypted: true })
updateUserFaceDescriptor(us, id, fd) ==
  [i \in 1..Len(us) |->
     IF us[i].id = id THEN [us[i] EXCEPT !.faceDescriptor = fd] ELSE us[i]]

\* getAllFaceDescriptors: the users whose faceDescriptor is not null
RECURSIVE getAllFaceDescriptors(_)
getAllFaceDescriptors(us) ==
  IF us = <<>> THEN <<>>
  ELSE LET rest == getAllFaceDescriptors(Tail(us))
       IN IF Head(us).faceDescriptor # Null
          THEN <<[userId |-> Head(us).id, descriptor |-> Head(us).faceDescriptor]>> \o rest
          ELSE rest

\* jwt.sign({ user_id: user.id, email }, TOKEN_KEY)
Token(user, email) == [user_id |-> user.id, email |-> email]

\* ----------------------------------------------- POST /api/auth/register
RegisterRoute(email, fd) ==
  LET req == [email |-> email, faceDescriptor |-> fd] IN
  /\ UNCHANGED <<group, trial, matchRun, coding>>
  /\ UNCHANGED <<serving, page, camera>>
  /\ IF email = NoEmail
     THEN \* insertUserSchema.safeParse fails
          /\ resp' = Resp("register", req, 400, "Invalid input", NoToken, NoBody)
          /\ UNCHANGED <<users, faceSamples, counters>>
     ELSE IF getUserByEmail(users, email) # {}
     THEN /\ resp' = Resp("register", req, 409, "User already exists", NoToken, NoBody)
          /\ UNCHANGED <<users, faceSamples, counters>>
     ELSE IF Truthy(fd) /\ ~faceDescriptorSchema(fd)
     THEN /\ resp' = Resp("register", req, 400, "Invalid face descriptor", NoToken, NoBody)
          /\ UNCHANGED <<users, faceSamples, counters>>
     ELSE LET user == createUser(email, fd) IN
          /\ users' = Append(users, user)
          /\ IF Truthy(fd)
             THEN /\ faceSamples' = Append(faceSamples, addFaceSample(user.id, fd))
                  /\ counters' = [userId |-> counters.userId + 1,
                                  faceSampleId |-> counters.faceSampleId + 1]
             ELSE /\ faceSamples' = faceSamples
                  /\ counters' = [counters EXCEPT !.userId = @ + 1]
          /\ resp' = Resp("register", req, 201, "", Token(user, email), NoBody)

Register ==
  /\ resp = NoResp
  /\ group.phase = "idle"
  /\ \E email \in Emails \cup {NoEmail}, fd \in BodyValues : RegisterRoute(email, fd)

\* -------------------------------------------------- POST /api/auth/login
\* loginUserSchema: email is an e-mail address, faceDescriptor is absent or
\* an array of numbers
loginUserSchema(q) == IsEmail(q.email) /\ q.faceDescriptor.tag \in {"array", "undefined"}

LoginResponse(us, q) ==
  LET found == getUserByEmail(us, q.email)
      user == CHOOSE u \in found : TRUE
      distance == euclideanDistance(user.faceDescriptor.v, q.faceDescriptor.v)
  IN IF ~loginUserSchema(q)
     THEN Resp("login", q, 400, "Invalid input", NoToken, NoBody)
     ELSE IF found = {}
     THEN Resp("login", q, 404, "User not found", NoToken, NoBody)
     ELSE IF Truthy(q.faceDescriptor) /\ Truthy(user.faceDescriptor)
     THEN IF distance.thrown
          THEN Resp("login", q, 500, "Server error", NoToken, NoBody)
          ELSE IF BelowThreshold(distance)
          THEN Resp("login", q, 200, "", Token(user, q.email), NoBody)
          ELSE Resp("login", q, 401, "Authentication failed", NoToken, NoBody)
     ELSE Resp("login", q, 401, "Authentication failed", NoToken, NoBody)

LoginRequests == [email : Emails \cup {NoEmail}, faceDescriptor : BodyValues]

\* A login that would also refresh the stored descriptor with the probe it
\* has just accepted.
LoginStoringProbe ==
  /\ resp = NoResp
  /\ group.phase = "idle"
  /\ \E q \in LoginRequests :
       /\ resp' = LoginResponse(users, q)
       /\ users' = IF resp'.status = 200
                   THEN updateUserFaceDescriptor(users, resp'.token.user_id,
                                                 q.faceDescriptor)
                   ELSE users
  /\ UNCHANGED <<faceSamples, counters, group, trial, matchRun, coding,
                 serving, page, camera>>

Login ==
  /\ resp = NoResp
  /\ group.phase = "idle"
  /\ \E q \in LoginRequests : resp' = LoginResponse(users, q)
  /\ UNCHANGED <<users, faceSamples, counters, group, trial, matchRun, coding>>
  /\ UNCHANGED <<serving, page, camera>>

\* --------------------------------------------- POST /api/face/similarity
\* similarityTestSchema: face1 and face2 are arrays of numbers
similarityTestSchema(q) == q.face1.tag = "array" /\ q.face2.tag = "array"

\* Math.max(0, Math.min(1, cosine * w + Math.random() * j)): a number of
\* [0, 1] whatever the jitter, but NaN when the cosine is NaN.
SimulatedScore(cosine) == IF cosine.nan THEN "NaN" ELSE "in [0,1]"

SimilarityResponse(q) ==
  LET euclidean == euclideanDistance(q.face1.v, q.face2.v)
      manhattan == manhattanDistance(q.face1.v, q.face2.v)
      cosine == cosineSimilarity(q.face1.v, q.face2.v)
  IN IF ~similarityTestSchema(q)
     THEN Resp("similarity", q, 400, "Invalid input", NoToken, NoBody)
     ELSE IF euclidean.thrown \/ manhattan.thrown \/ cosine.thrown
     THEN Resp("similarity", q, 500, "Server error", NoToken, NoBody)
     ELSE Resp("similarity", q, 200, "", NoToken,
               [kind |-> "similarity",
                \* Math.exp(-euclidean), carried by the radicand of euclidean
                overallSimilarity |-> euclidean,
                euclideanDistance |-> euclidean,
                manhattanDistance |-> manhattan,
                cosineSimilarity |-> cosine,
                neuralNetworks |-> SimulatedScore(cosine)])

SimilarityRequests == [face1 : BodyValues, face2 : BodyValues]

Similarity ==
  /\ resp = NoResp
  /\ group.phase = "idle"
  /\ \E q \in SimilarityRequests : resp' = SimilarityResponse(q)
  /\ UNCHANGED <<users, faceSamples, counters, group, trial, matchRun, coding>>
  /\ UNCHANGED <<serving, page, camera>>

\* -------------------------------------------------- POST /api/face/match
matchTestSchema(q) == q.probeFace.tag = "array"

\* An element of Promise.all(allFaces.map(...)): a promise that is pending,
\* or settled with null or with a match.  The similarity Math.exp(-distance)
\* is carried by the radicand of the distance.
PendingRow(userId) == [state |-> "pending", userId |-> userId, similarity |-> Num(0)]
NullRow(userId) == [state |-> "null", userId |-> userId, similarity |-> Num(0)]

\* The callback of allFaces.map after storage.getUser has answered with
\* found, a set of at most one user: null when the user does not resolve.
MatchCallback(found, face, probe) ==
  IF found = {} THEN NullRow(face.userId)
  ELSE [state |-> "match", userId |-> face.userId,
        similarity |-> euclideanDistance(probe, face.descriptor.v)]

\* The rows that are not null, cut to the first three.
FilterNullTopThree(rows) ==
  LET kept == SelectSeq(rows, LAMBDA r : r.state # "null")
  IN SubSeq(kept, 1, Min(3, Len(kept)))

\* matches.filter(match => match !== null)
FilterNull(rows) == SelectSeq(rows, LAMBDA r : r.state # "null")

\* The rows of Promise.all(allFaces.map(...)) when every lookup is answered
\* from the storage us, in the order of allFaces.
MatchRows(us, allFaces, probe) ==
  [i \in 1..Len(allFaces) |->
     MatchCallback(getUser(us, allFaces[i].userId), allFaces[i], probe)]

\* An insertion that orders the rows by similarity, lowest first.
RECURSIVE InsertRowLowestFirst(_, _)
InsertRowLowestFirst(sorted, row) ==
  IF sorted = <<>> THEN <<row>>
  ELSE IF row.similarity.val > Head(sorted).similarity.val
       THEN <<row>> \o sorted
       ELSE <<Head(sorted)>> \o InsertRowLowestFirst(Tail(sorted), row)

\* Array.prototype.sort((a, b) => b.similarity - a.similarity): stable,
\* highest similarity (lowest radicand) first.
RECURSIVE InsertRow(_, _)
InsertRow(sorted, row) ==
  IF sorted = <<>> THEN <<row>>
  ELSE IF row.similarity.val < Head(sorted).similarity.val
       THEN <<row>> \o sorted
       ELSE <<Head(sorted)>> \o InsertRow(Tail(sorted), row)

\* A sort that leaves the rows as they are.
SortBySimilarityKeepOrder(rows) == rows

RECURSIVE SortBySimilarity(_)
SortBySimilarity(rows) ==
  IF rows = <<>> THEN <<>>
  ELSE InsertRow(SortBySimilarity(SubSeq(rows, 1, Len(rows) - 1)), rows[Len(rows)])

\* The largest radicand r with Math.exp(-sqrt(r / 100)) >= 0.75:
\* exp(-d) >= 0.75 iff d <= 0.2876..., iff r <= 8.27...
MatchRadicandMax == 8
\* A row counted when its distance is below the login threshold 0.6.
AboveMatchThresholdAsLogin(row) == BelowThreshold(row.similarity)

\* (match?.similarity || 0) >= threshold
AboveMatchThreshold(row) == row.similarity.val <= MatchRadicandMax

\* filteredMatches.filter(match => (match?.similarity || 0) >= threshold).length
aboveThreshold(filteredMatches) ==
  Cardinality({i \in 1..Len(filteredMatches) : AboveMatchThreshold(filteredMatches[i])})

\* The number of rows returned.
totalTestedReturned(allFaces, filteredMatches) == Len(filteredMatches)

\* const totalTested = allFaces.length
totalTested(allFaces, filteredMatches) == Len(allFaces)

\* The three headline figures, in thousandths.
tpr(above) == IF above > 0 THEN 953 ELSE 0
\* A false-positive rate that is gated like the other two figures.
fprAnyMatch(above) == IF above > 0 THEN 42 ELSE 0

fpr(above) == IF above > 1 THEN 42 ELSE 0
accuracy(above) == IF above > 0 THEN 921 ELSE 500

\* The handler from the settled rows on: filter, sort, count, respond.  A
\* callback that threw rejects Promise.all and the catch answers.
MatchReport(q, allFaces, matches) ==
  LET filteredMatches == SortBySimilarity(FilterNull(matches))
      above == aboveThreshold(filteredMatches)
  IN IF \E i \in 1..Len(matches) : matches[i].similarity.thrown
     THEN Resp("match", q, 500, "Server error", NoToken, NoBody)
     ELSE Resp("match", q, 200, "", NoToken,
               [kind |-> "match",
                matches |-> filteredMatches,
                totalFaces |-> totalTested(allFaces, filteredMatches),
                matchedAboveThreshold |-> above,
                tpr |-> tpr(above),
                fpr |-> fpr(above),
                accuracy |-> accuracy(above)])

MatchResponse(us, q) ==
  LET allFaces == getAllFaceDescriptors(us)
  IN IF ~matchTestSchema(q)
     THEN Resp("match", q, 400, "Invalid input", NoToken, NoBody)
     ELSE MatchReport(q, allFaces, MatchRows(us, allFaces, q.probeFace.v))

MatchRequests == [probeFace : BodyValues]

Match ==
  /\ resp = NoResp
  /\ group.phase = "idle"
  /\ \E q \in MatchRequests : resp' = MatchResponse(users, q)
  /\ UNCHANGED <<users, faceSamples, counters, group, trial, matchRun, coding>>
  /\ UNCHANGED <<serving, page, camera>>

\* -------------------------------------------------- POST /api/auth/group
\* An element of groupMembers: an object, or null.
Member(email, fd) == [tag |-> "object", email |-> email, faceDescriptor |-> fd]
NullMember == [tag |-> "null", email |-> NoEmail, faceDescriptor |-> Undefined]

\* requiredMembers: absent, or a number
NoCount == [tag |-> "undefined", n |-> 0]
Count(k) == [tag |-> "number", n |-> k]

\* The enrolments and the probes of the group authentication runs: a user
\* without a descriptor or with the descriptor [0]; a probe that is no
\* array, of another length, equal to [0], at distance 0.5 and at distance 0.6.
GroupStored == {Undefined, Arr(<<0>>)}
GroupProbes == {Junk, Arr(<<>>), Arr(<<0>>), Arr(<<5>>), Arr(<<6>>)}
Members == {NullMember} \cup {Member(e, fd) : e \in Emails, fd \in GroupProbes}
Batches == UNION {[1..k -> Members] : k \in 0..MaxBatch}
GroupRequests ==
  [groupMembers : {Undefined, Junk} \cup {Arr(b) : b \in Batches},
   requiredMembers : {NoCount} \cup {Count(k) : k \in 0..(MaxBatch + 1)}]

\* A guard that forgets the empty batch.
GroupMembersGivenAnyLength(gm) == gm.tag = "array"

\* !groupMembers || !Array.isArray(groupMembers) || groupMembers.length === 0
\* is false
GroupMembersGiven(gm) == gm.tag = "array" /\ Len(gm.v) # 0

\* A default quorum of one member.
minRequiredDefaultOne(req) ==
  IF req.requiredMembers.tag = "number" /\ req.requiredMembers.n # 0
  THEN req.requiredMembers.n
  ELSE 1

\* requiredMembers || groupMembers.length: undefined and 0 are falsy
minRequired(req) ==
  IF req.requiredMembers.tag = "number" /\ req.requiredMembers.n # 0
  THEN req.requiredMembers.n
  ELSE Len(req.groupMembers.v)

\* A member's promise: pending, or settled ("done") with its result.
PendingSlot(email) ==
  [state |-> "pending", email |-> email, authenticated |-> FALSE, error |-> "",
   compared |-> FALSE, similarity |-> Num(0)]
Failed(email, error) ==
  [state |-> "done", email |-> email, authenticated |-> FALSE, error |-> error,
   compared |-> FALSE, similarity |-> Num(0)]
\* similarity: Math.exp(-distance), carried by the radicand of the distance
Compared(email, distance) ==
  [state |-> "done", email |-> email, authenticated |-> BelowThreshold(distance),
   error |-> "", compared |-> TRUE, similarity |-> distance]

\* The member's callback up to its await: the descriptor format check.
MemberBegin(m) ==
  IF ~faceDescriptorSchema(m.faceDescriptor)
  THEN Failed(m.email, "Invalid face descriptor")
  ELSE PendingSlot(m.email)

\* The member's callback without its check for an enrolled descriptor: a
\* null descriptor is compared as the empty array.
MemberResultNoEnrollCheck(us, m) ==
  LET found == getUserByEmail(us, m.email)
      user == CHOOSE u \in found : TRUE
      distance == euclideanDistance(user.faceDescriptor.v, m.faceDescriptor.v)
  IN IF found = {} THEN Failed(m.email, "User not found")
     ELSE IF distance.thrown
     THEN Failed(m.email, "Authentication failed")
     ELSE Compared(m.email, distance)

\* The member's callback after storage.getUserByEmail has answered.
MemberResult(us, m) ==
  LET found == getUserByEmail(us, m.email)
      user == CHOOSE u \in found : TRUE
      distance == euclideanDistance(user.faceDescriptor.v, m.faceDescriptor.v)
  IN IF found = {} THEN Failed(m.email, "User not found")
     ELSE IF ~Truthy(user.faceDescriptor)
     THEN Failed(m.email, "No face descriptor registered")
     ELSE IF distance.thrown
     THEN Failed(m.email, "Authentication failed")
     ELSE Compared(m.email, distance)

\* Results listed in the order in which the members' callbacks finished.
GroupResultsByCompletion(slots, order) == [k \in 1..Len(order) |-> slots[order[k]]]

\* Promise.all: the results in the order of the input array
GroupResults(slots, order) == slots

GroupResponse(req, slots, order) ==
  LET results == GroupResults(slots, order)
      authenticatedCount == Cardinality({i \in 1..Len(results) : results[i].authenticated})
  IN Resp("group", req, 200, "", NoToken,
          [kind |-> "group",
           groupAuthenticated |-> authenticatedCount >= minRequired(req),
           authenticatedCount |-> authenticatedCount,
           requiredMembers |-> minRequired(req),
           totalMembers |-> Len(req.groupMembers.v),
           members |-> results])

\* The handler up to its await of Promise.all: the guard, then every
\* member's callback up to its own await.  A null element makes its callback
\* reject (its parameter cannot be destructured), so Promise.all rejects and
\* the outer catch answers; the lookups already issued are abandoned.
GroupStart ==
  /\ resp = NoResp
  /\ group.phase = "idle"
  /\ UNCHANGED <<users, faceSamples, counters, trial, matchRun, coding>>
  /\ UNCHANGED <<serving, page, camera>>
  /\ \E req \in GroupRequests :
       LET gm == req.groupMembers
           n == Len(gm.v)
           slots == [i \in 1..n |-> MemberBegin(gm.v[i])]
           pending == {i \in 1..n : slots[i].state = "pending"}
           issued == Cardinality({i \in 1..n : gm.v[i].tag = "object"
                                               /\ faceDescriptorSchema(gm.v[i].faceDescriptor)})
           order == SelectSeq([i \in 1..n |-> i], LAMBDA i : i \notin pending)
           started == [phase |-> "running", req |-> req, slots |-> slots,
                       pending |-> pending, order |-> order, lookups |-> issued]
       IN IF ~GroupMembersGiven(gm)
          THEN /\ resp' = Resp("group", req, 400, "Group members are required", NoToken, NoBody)
               /\ group' = [GroupIdle EXCEPT !.phase = "done", !.req = req]
          ELSE IF \E i \in 1..n : gm.v[i].tag = "null"
          THEN /\ resp' = Resp("group", req, 500, "Server error", NoToken, NoBody)
               /\ group' = [GroupIdle EXCEPT !.phase = "done", !.req = req, !.lookups = issued]
          ELSE IF pending = {}
          THEN /\ resp' = GroupResponse(req, slots, order)
               /\ group' = [started EXCEPT !.phase = "done"]
          ELSE /\ resp' = resp
               /\ group' = started

\* storage.getUserByEmail answers for member i, in any order among the
\* pending members; the last answer settles Promise.all and the handler
\* responds.
MemberLookup ==
  /\ group.phase = "running"
  /\ UNCHANGED <<users, faceSamples, counters, trial, matchRun, coding>>
  /\ UNCHANGED <<serving, page, camera>>
  /\ \E i \in group.pending :
       LET slots == [group.slots EXCEPT ![i] = MemberResult(users, group.req.groupMembers.v[i])]
           order == Append(group.order, i)
           pending == group.pending \ {i}
       IN IF pending = {}
          THEN /\ resp' = GroupResponse(group.req, slots, order)
               /\ group' = [group EXCEPT !.phase = "done", !.slots = slots,
                                         !.order = order, !.pending = pending]
          ELSE /\ resp' = resp
               /\ group' = [group EXCEPT !.slots = slots, !.order = order,
                                         !.pending = pending]

\* The enrolments that precede the group authentication runs.
GroupEnroll ==
  /\ resp = NoResp
  /\ group.phase = "idle"
  /\ \E email \in Emails, fd \in GroupStored : RegisterRoute(email, fd)

\* The response has been sent; the server takes the next request.
Deliver ==
  /\ resp # NoResp
  /\ resp' = NoResp
  /\ group' = GroupIdle
  /\ matchRun' = MatchIdle
  /\ UNCHANGED <<users, faceSamples, counters, trial, coding>>
  /\ UNCHANGED <<serving, page, camera>>

Init ==
  /\ users = <<>>
  /\ faceSamples = <<>>
  /\ counters = [userId |-> 1, faceSampleId |-> 1]
  /\ resp = NoResp
  /\ group = GroupIdle
  /\ trial = NoTrial
  /\ matchRun = MatchIdle
  /\ coding = NoCoding
  /\ serving = NoServing
  /\ page = NoPage
  /\ camera = NoCamera

Next == Register \/ Login \/ Similarity \/ Match \/ Deliver

Spec == Init /\ [][Next]_vars

GroupNext == GroupEnroll \/ GroupStart \/ MemberLookup \/ Deliver

SpecGroup == Init /\ [][GroupNext]_vars

\* The server with every comparison route and the enrolments before them.
FrameNext ==
  \/ GroupEnroll \/ Login \/ Similarity \/ Match
  \/ GroupStart \/ MemberLookup \/ Deliver

SpecFrame == Init /\ [][FrameNext]_vars

\* ------------------------------------------- the vector math on its own
\* The two vectors are drawn at the start; each action applies one function
\* to them.
Call(fn, a, b, out) == [fn |-> fn, a |-> a, b |-> b, out |-> out]

MathInit ==
  /\ users = <<>>
  /\ faceSamples = <<>>
  /\ counters = [userId |-> 1, faceSampleId |-> 1]
  /\ resp = NoResp
  /\ group = GroupIdle
  /\ trial \in {Call("none", a, b, Num(0)) : a \in MathVectors, b \in MathVectors}
  /\ matchRun = MatchIdle
  /\ coding = NoCoding
  /\ serving = NoServing
  /\ page = NoPage
  /\ camera = NoCamera

Apply(fn, out) ==
  /\ trial.fn = "none"
  /\ trial' = Call(fn, trial.a, trial.b, out)
  /\ UNCHANGED <<users, faceSamples, counters, resp, group, matchRun, coding>>
  /\ UNCHANGED <<serving, page, camera>>

ServerEuclidean == Apply("server.euclideanDistance", euclideanDistance(trial.a, trial.b))
ServerManhattan == Apply("server.manhattanDistance", manhattanDistance(trial.a, trial.b))
ServerCosine == Apply("server.cosineSimilarity", cosineSimilarity(trial.a, trial.b))
ClientEuclidean == Apply("client.euclideanDistance", clientEuclideanDistance(trial.a, trial.b))
ClientManhattan == Apply("client.manhattanDistance", clientManhattanDistance(trial.a, trial.b))
ClientCosine == Apply("client.cosineSimilarity", clientCosineSimilarity(trial.a, trial.b))

MathNext ==
  \/ ServerEuclidean \/ ServerManhattan \/ ServerCosine
  \/ ClientEuclidean \/ ClientManhattan \/ ClientCosine

SpecMath == MathInit /\ [][MathNext]_vars

\* The client's display of a match result (MatchingTest):
\* results.matches.slice(0, 3)
topMatches(matches) == SubSeq(matches, 1, Min(3, Len(matches)))

\* ------------------------------------------ the match, lookup by lookup
\* The server starts over a database that already holds a population, and
\* serves match requests; the identity lookup of each row is answered on its
\* own, in any order, and may fail (storage.getUser then answers undefined).

\* Largest number of users of the population.
MaxPop == 5
\* The descriptors of the population (null: a user without descriptor) and
\* the probes: a probe is no array, of another length, or at distance 0
\* (similarity 1), 0.1 (0.90), 0.2 (0.81) or 0.3 (0.74) of a stored descriptor.
MatchStored == {Null, Arr(<<0>>), Arr(<<3>>)}
MatchProbes == {Junk, Arr(<<>>), Arr(<<0>>), Arr(<<2>>), Arr(<<3>>)}
PopEmails == <<"a@x.io", "b@x.io", "c@x.io", "d@x.io", "e@x.io", "f@x.io", "g@x.io", "h@x.io">>

\* The documents of a population: ids in insertion order, and one face
\* sample for each descriptor enrolled at registration.
PopUsers(fds) ==
  [i \in 1..Len(fds) |-> [id |-> i, email |-> PopEmails[i], faceDescriptor |-> fds[i]]]
PopSamples(fds) ==
  LET faces == getAllFaceDescriptors(PopUsers(fds))
  IN [k \in 1..Len(faces) |->
        [id |-> k, userId |-> faces[k].userId, descriptor |-> faces[k].descriptor]]

MatchInit ==
  /\ \E fds \in UNION {[1..n -> MatchStored] : n \in 0..MaxPop} :
       /\ users = PopUsers(fds)
       /\ faceSamples = PopSamples(fds)
       \* initCounters: the highest id + 1
       /\ counters = [userId |-> Len(fds) + 1, faceSampleId |-> Len(PopSamples(fds)) + 1]
  /\ resp = NoResp
  /\ group = GroupIdle
  /\ trial = NoTrial
  /\ matchRun = MatchIdle
  /\ coding = NoCoding
  /\ serving = NoServing
  /\ page = NoPage
  /\ camera = NoCamera

\* The handler up to its await of Promise.all: the schema, the population
\* (empty when storage.getAllFaceDescriptors fails), and one lookup issued
\* per row.
MatchStart ==
  /\ resp = NoResp
  /\ matchRun.phase = "idle"
  /\ UNCHANGED <<users, faceSamples, counters, group, trial, coding>>
  /\ UNCHANGED <<serving, page, camera>>
  /\ \E q \in [probeFace : MatchProbes], allFaces \in {getAllFaceDescriptors(users), <<>>} :
       LET rows == [i \in 1..Len(allFaces) |-> PendingRow(allFaces[i].userId)]
           started == [phase |-> "running", req |-> q, allFaces |-> allFaces,
                       rows |-> rows, pending |-> 1..Len(allFaces),
                       outOfOrder |-> FALSE]
       IN IF ~matchTestSchema(q)
          THEN /\ resp' = Resp("match", q, 400, "Invalid input", NoToken, NoBody)
               /\ matchRun' = [MatchIdle EXCEPT !.phase = "done", !.req = q]
          ELSE IF allFaces = <<>>
          THEN /\ resp' = MatchReport(q, allFaces, rows)
               /\ matchRun' = [started EXCEPT !.phase = "done"]
          ELSE /\ resp' = resp
               /\ matchRun' = started

\* storage.getUser answers for row i, in any order among the pending rows,
\* with the user or with undefined; the callback goes on to its end.  A
\* callback that throws rejects Promise.all at once; otherwise the last
\* answer settles it and the handler responds.
RowLookup ==
  /\ matchRun.phase = "running"
  /\ UNCHANGED <<users, faceSamples, counters, group, trial, coding>>
  /\ UNCHANGED <<serving, page, camera>>
  /\ \E i \in matchRun.pending :
     \E found \in {getUser(users, matchRun.allFaces[i].userId), {}} :
       LET row == MatchCallback(found, matchRun.allFaces[i], matchRun.req.probeFace.v)
           rows == [matchRun.rows EXCEPT ![i] = row]
           pending == matchRun.pending \ {i}
           run == [matchRun EXCEPT !.rows = rows, !.pending = pending,
                                   !.outOfOrder = @ \/ (\E j \in pending : j < i)]
       IN IF row.similarity.thrown \/ pending = {}
          THEN /\ resp' = MatchReport(matchRun.req, matchRun.allFaces, rows)
               /\ matchRun' = [run EXCEPT !.phase = "done"]
          ELSE /\ resp' = resp
               /\ matchRun' = run

MatchNext == MatchStart \/ RowLookup \/ Deliver

SpecMatch == MatchInit /\ [][MatchNext]_vars

\* ------------------------------------------------- the descriptor codec
\* A string is a sequence of characters (strings of length one); a number
\* of a descriptor counts tenths, as everywhere.

Digits == <<"0", "1", "2", "3", "4", "5", "6", "7", "8", "9">>
HexDigits == Digits \o <<"a", "b", "c", "d", "e", "f">>
Base36Digits ==
  HexDigits \o <<"g", "h", "i", "j", "k", "l", "m", "n", "o", "p", "q", "r", "s", "t",
                 "u", "v", "w", "x", "y", "z">>
Base64Alphabet ==
  <<"A", "B", "C", "D", "E", "F", "G", "H", "I", "J", "K", "L", "M", "N", "O", "P", "Q",
    "R", "S", "T", "U", "V", "W", "X", "Y", "Z", "a", "b", "c", "d", "e", "f", "g", "h",
    "i", "j", "k", "l", "m", "n", "o", "p", "q", "r", "s", "t", "u", "v", "w", "x", "y",
    "z", "0", "1", "2", "3", "4", "5", "6", "7", "8", "9", "+", "/">>

Range(seq) == {seq[i] : i \in 1..Len(seq)}
IndexOf(seq, c) == CHOOSE i \in 1..Len(seq) : seq[i] = c

\* The result of a codec call: a descriptor, or an error thrown.
Decoded(v) == [thrown |-> FALSE, msg |-> "", v |-> v]
CodecError(msg) == [thrown |-> TRUE, msg |-> msg, v |-> <<>>]

\* Number.prototype.toString(radix), of a natural number
RECURSIVE NatToString(_, _)
NatToString(n, digits) ==
  IF n < Len(digits) THEN <<digits[n + 1]>>
  ELSE NatToString(n \div Len(digits), digits) \o <<digits[(n % Len(digits)) + 1]>>

\* JSON.stringify of a number that drops its sign.
NumberToJSONUnsigned(x) ==
  NatToString(Abs(x) \div 10, Digits)
    \o (IF Abs(x) % 10 = 0 THEN <<>> ELSE <<".", Digits[(Abs(x) % 10) + 1]>>)

\* JSON.stringify of a number: x tenths is written -?int(.d)?
NumberToJSON(x) ==
  (IF x < 0 THEN <<"-">> ELSE <<>>)
    \o NatToString(Abs(x) \div 10, Digits)
    \o (IF Abs(x) % 10 = 0 THEN <<>> ELSE <<".", Digits[(Abs(x) % 10) + 1]>>)

\* JSON.stringify of an array of numbers: [n1,n2,...]
RECURSIVE JoinNumbers(_)
JoinNumbers(v) ==
  IF v = <<>> THEN <<>>
  ELSE IF Len(v) = 1 THEN NumberToJSON(v[1])
  ELSE NumberToJSON(v[1]) \o <<",">> \o JoinNumbers(Tail(v))
JSONStringify(v) == <<"[">> \o JoinNumbers(v) \o <<"]">>

\* String.prototype.split(sep): the parts between the separators
RECURSIVE Split(_, _)
Split(str, sep) ==
  IF sep \notin Range(str) THEN <<str>>
  ELSE LET i == CHOOSE k \in 1..Len(str) : str[k] = sep /\ \A j \in 1..(k - 1) : str[j] # sep
       IN <<SubSeq(str, 1, i - 1)>> \o Split(SubSeq(str, i + 1, Len(str)), sep)

\* The value of a string of decimal digits.
RECURSIVE DigitsValue(_)
DigitsValue(ds) ==
  IF ds = <<>> THEN 0
  ELSE 10 * DigitsValue(SubSeq(ds, 1, Len(ds) - 1)) + (IndexOf(Digits, ds[Len(ds)]) - 1)

\* The JSON grammar of a number with at most one fractional digit:
\* -? (0 | [1-9][0-9]*) (. [0-9])?
IsJSONNumber(str) ==
  LET body == IF str # <<>> /\ str[1] = "-" THEN Tail(str) ELSE str
      parts == Split(body, ".")
      int == parts[1]
  IN /\ Len(parts) \in {1, 2}
     /\ int # <<>> /\ Range(int) \subseteq Range(Digits)
     /\ (Len(int) > 1 => int[1] # "0")
     /\ (Len(parts) = 2 => (Len(parts[2]) = 1 /\ parts[2][1] \in Range(Digits)))
JSONNumber(str) ==
  LET negative == str[1] = "-"
      parts == Split(IF negative THEN Tail(str) ELSE str, ".")
      tenths == 10 * DigitsValue(parts[1])
                  + (IF Len(parts) = 2 THEN DigitsValue(parts[2]) ELSE 0)
  IN IF negative THEN -tenths ELSE tenths

\* A string without its leading and trailing white space.
RECURSIVE Trim(_)
Trim(str) ==
  IF str = <<>> THEN str
  ELSE IF str[1] = " " THEN Trim(Tail(str))
  ELSE IF str[Len(str)] = " " THEN Trim(SubSeq(str, 1, Len(str) - 1))
  ELSE str

\* JSON.parse of a text: the array of numbers it denotes, or a SyntaxError.
\* White space around the tokens is skipped.
JSONParse(text) ==
  LET str == Trim(text)
      inner == Trim(SubSeq(str, 2, Len(str) - 1))
      items == IF inner = <<>> THEN <<>> ELSE Split(inner, ",")
  IN IF Len(str) < 2 \/ str[1] # "[" \/ str[Len(str)] # "]"
     THEN CodecError("SyntaxError")
     ELSE IF \E k \in 1..Len(items) : ~IsJSONNumber(Trim(items[k]))
     THEN CodecError("SyntaxError")
     ELSE Decoded([k \in 1..Len(items) |-> JSONNumber(Trim(items[k]))])

\* The character codes of the characters of a JSON text (charCodeAt), and
\* String.fromCharCode; "?" stands for every other character.
CharCode(c) ==
  CASE c = "[" -> 91 [] c = "]" -> 93 [] c = "," -> 44 [] c = "-" -> 45
    [] c = "." -> 46 [] c = " " -> 32
    [] c \in Range(Digits) -> 47 + IndexOf(Digits, c)
    [] OTHER -> 63
FromCharCode(b) ==
  CASE b = 91 -> "[" [] b = 93 -> "]" [] b = 44 -> "," [] b = 45 -> "-"
    [] b = 46 -> "." [] b \in {9, 10, 13, 32} -> " "
    [] b \in 48..57 -> Digits[b - 47]
    [] OTHER -> "?"
ToBytes(str) == [i \in 1..Len(str) |-> CharCode(str[i])]
FromBytes(bytes) == [i \in 1..Len(bytes) |-> FromCharCode(bytes[i])]

\* btoa: three bytes make four characters of the base64 alphabet, the last
\* group padded with "=".
RECURSIVE Base64(_)
Base64(bytes) ==
  IF bytes = <<>> THEN <<>>
  ELSE LET n == Min(3, Len(bytes))
           bits == bytes[1] * 65536 + (IF n >= 2 THEN bytes[2] * 256 ELSE 0)
                     + (IF n = 3 THEN bytes[3] ELSE 0)
       IN << Base64Alphabet[(bits \div 262144) + 1],
             Base64Alphabet[((bits \div 4096) % 64) + 1],
             IF n >= 2 THEN Base64Alphabet[((bits \div 64) % 64) + 1] ELSE "=",
             IF n = 3 THEN Base64Alphabet[(bits % 64) + 1] ELSE "=" >>
            \o Base64(SubSeq(bytes, n + 1, Len(bytes)))
btoa(str) == Base64(ToBytes(str))

\* atob: the padding is removed when the length is a multiple of 4; a
\* character outside the alphabet or a length of 1 modulo 4 is an
\* InvalidCharacterError; four characters make three bytes, a last group of
\* two or three characters one or two bytes.
RECURSIVE Base64Bytes(_)
Base64Bytes(chars) ==
  IF chars = <<>> THEN <<>>
  ELSE LET n == Min(4, Len(chars))
           six(k) == IF k <= n THEN IndexOf(Base64Alphabet, chars[k]) - 1 ELSE 0
           bits == six(1) * 262144 + six(2) * 4096 + six(3) * 64 + six(4)
           three == <<bits \div 65536, (bits \div 256) % 256, bits % 256>>
       IN SubSeq(three, 1, n - 1) \o Base64Bytes(SubSeq(chars, n + 1, Len(chars)))
atob(str) ==
  LET n == Len(str)
      pad == IF n % 4 = 0 /\ n > 0 /\ str[n] = "="
             THEN (IF str[n - 1] = "=" THEN 2 ELSE 1) ELSE 0
      chars == SubSeq(str, 1, n - pad)
  IN IF ~(Range(chars) \subseteq Range(Base64Alphabet)) \/ Len(chars) % 4 = 1
     THEN CodecError("InvalidCharacterError")
     ELSE Decoded(Base64Bytes(chars))

\* Buffer.toString('hex') and Buffer.from(str, 'hex'): two hex digits a
\* byte; the decoding stops at the first pair that is no hex number.
RECURSIVE ToHex(_)
ToHex(bytes) ==
  IF bytes = <<>> THEN <<>>
  ELSE <<HexDigits[(bytes[1] \div 16) + 1], HexDigits[(bytes[1] % 16) + 1]>> \o ToHex(Tail(bytes))
RECURSIVE FromHex(_)
FromHex(str) ==
  IF Len(str) < 2 \/ str[1] \notin Range(HexDigits) \/ str[2] \notin Range(HexDigits)
  THEN <<>>
  ELSE <<16 * (IndexOf(HexDigits, str[1]) - 1) + (IndexOf(HexDigits, str[2]) - 1)>>
         \o FromHex(SubSeq(str, 3, Len(str)))

\* The cipher 'aes-256-cbc' of the crypto library, as what the codec relies
\* on: the key and the iv must have the cipher's lengths (32 and 16 bytes,
\* here one byte each), the plain text is padded and every byte is replaced
\* under the key, the iv and its position, and deciphering under the same key
\* and iv inverts it and fails on a padding that is not intact.
KeyLength == 1
IvLength == 1
Shift(key, iv, i) == (Sum(key) + Sum(iv) + i) % 256
Encipher(key, iv, plain) ==
  LET padded == plain \o <<1>>
  IN [i \in 1..Len(padded) |-> (padded[i] + Shift(key, iv, i)) % 256]
Decipher(key, iv, encrypted) ==
  LET padded == [i \in 1..Len(encrypted) |-> (encrypted[i] + 256 - Shift(key, iv, i)) % 256]
  IN IF padded = <<>> \/ padded[Len(padded)] # 1
     THEN CodecError("bad decrypt")
     ELSE Decoded(SubSeq(padded, 1, Len(padded) - 1))

\* A token, or the error thrown instead of it.
Encoded(token) == [thrown |-> FALSE, msg |-> "", token |-> token]
EncodeError(msg) == [thrown |-> TRUE, msg |-> msg, token |-> <<>>]

\* Server: iv.toString('hex') + ':' + encrypted, with iv = crypto.randomBytes
\* and encrypted the hex of the enciphered JSON text.
encryptFaceData(data, key, iv) ==
  IF Len(FromHex(key)) # KeyLength THEN EncodeError("Invalid key length")
  ELSE Encoded(ToHex(iv) \o <<":">>
                 \o ToHex(Encipher(FromHex(key), iv, ToBytes(JSONStringify(data)))))

\* Server: parts[0] is the iv and parts[1] the encrypted text; there is no
\* check of the number of parts, and parts[1] is undefined when there is one.
decryptFaceData(encryptedData, key) ==
  LET parts == Split(encryptedData, ":")
      iv == FromHex(parts[1])
      decrypted == Decipher(FromHex(key), iv, FromHex(parts[2]))
  IN IF Len(FromHex(key)) # KeyLength THEN CodecError("Invalid key length")
     ELSE IF Len(iv) # IvLength THEN CodecError("Invalid initialization vector")
     ELSE IF Len(parts) < 2 THEN CodecError("TypeError")
     ELSE IF decrypted.thrown THEN decrypted
     ELSE JSONParse(FromBytes(decrypted.v))

\* Client: `${timestamp}:${encoded}` with timestamp = Date.now().toString(36)
\* and encoded = btoa(JSON.stringify(data)); the key is not used.
clientEncryptFaceData(data, key, now) ==
  Encoded(NatToString(now, Base36Digits) \o <<":">> \o btoa(JSONStringify(data)))

\* Client: split(':'), exactly two parts, atob(parts[1]), JSON.parse
clientDecryptFaceData(encryptedData, key) ==
  LET parts == Split(encryptedData, ":")
      decoded == atob(parts[2])
  IN IF Len(parts) # 2 THEN CodecError("Invalid encrypted data format")
     ELSE IF decoded.thrown THEN decoded
     ELSE JSONParse(FromBytes(decoded.v))

\* The descriptors, keys, encoding times and ivs of the codec calls: a
\* descriptor has negative, zero and fractional components; a key is one the
\* program generates (hex of random bytes) or the empty string.
CodecVals == {-5, 0, 12}
CodecVectors == UNION {[1..k -> CodecVals] : k \in 0..MaxVecLen}
CodecKeys == {<<"0", "7">>, <<"f", "e">>, <<>>}
CodecTimes == {35, 1296}
CodecIvs == {<<0>>, <<171>>}

\* What a decoder is handed for a token: the token itself, the token
\* without its delimiter, with a third part, with a trailing delimiter, with
\* a leading delimiter, or with the first character of its payload missing.
DecoderInputs(token) ==
  LET parts == Split(token, ":")
  IN { token,
       parts[1] \o parts[2],
       token \o <<":">> \o parts[2],
       token \o <<":">>,
       <<":">> \o token,
       parts[1] \o <<":">> \o Tail(parts[2]) }

CodecInit ==
  /\ users = <<>>
  /\ faceSamples = <<>>
  /\ counters = [userId |-> 1, faceSampleId |-> 1]
  /\ resp = NoResp
  /\ group = GroupIdle
  /\ trial = NoTrial
  /\ matchRun = MatchIdle
  /\ coding \in {[NoCoding EXCEPT !.v = v, !.key = key, !.time = now, !.iv = iv] :
                   v \in CodecVectors, key \in CodecKeys, now \in CodecTimes, iv \in CodecIvs}
  /\ serving = NoServing
  /\ page = NoPage
  /\ camera = NoCamera

Encode(fn, encoded) ==
  /\ coding.fn = "none"
  /\ coding' = [coding EXCEPT !.fn = fn, !.token = encoded.token,
                              !.out = IF encoded.thrown THEN CodecError(encoded.msg)
                                      ELSE Decoded(<<>>)]
  /\ UNCHANGED <<users, faceSamples, counters, resp, group, trial, matchRun>>
  /\ UNCHANGED <<serving, page, camera>>

ClientEncode ==
  Encode("client.encryptFaceData", clientEncryptFaceData(coding.v, coding.key, coding.time))
ServerEncode ==
  Encode("server.encryptFaceData", encryptFaceData(coding.v, coding.key, coding.iv))

ClientDecode ==
  /\ coding.fn = "client.encryptFaceData"
  /\ \E input \in DecoderInputs(coding.token) :
       coding' = [coding EXCEPT !.fn = "client.decryptFaceData", !.input = input,
                                !.out = clientDecryptFaceData(input, coding.key)]
  /\ UNCHANGED <<users, faceSamples, counters, resp, group, trial, matchRun>>
  /\ UNCHANGED <<serving, page, camera>>

ServerDecode ==
  /\ coding.fn = "server.encryptFaceData"
  /\ ~coding.out.thrown
  /\ \E input \in DecoderInputs(coding.token) :
       coding' = [coding EXCEPT !.fn = "server.decryptFaceData", !.input = input,
                                !.out = decryptFaceData(input, coding.key)]
  /\ UNCHANGED <<users, faceSamples, counters, resp, group, trial, matchRun>>
  /\ UNCHANGED <<serving, page, camera>>

CodecNext == ClientEncode \/ ServerEncode \/ ClientDecode \/ ServerDecode

SpecCodec == CodecInit /\ [][CodecNext]_vars

\* ------------------------------------ requests served step by step
\* Registration and the face-sample route as the server runs them: a handler
\* gives way at each await, so the steps of two requests interleave, and
\* they interleave with initCounters, which the storage's constructor starts
\* and does not await.  The database holds the documents of earlier runs of
\* the server.  It enforces the unique indexes of its collections and
\* answers every call; each request carries a user name of its own.

\* The requests served in one run.
MaxCalls == 2

\* E-mail addresses that pass insertUserSchema, and the descriptors sent.
StoreEmails == {"a@x.io", "b@x.io"}
StoreFaces == {Undefined, Junk, Arr(<<0>>), Arr(<<5>>)}
\* The userId of a face-sample request; 0 stands for a missing one.
StoreUserIds == 0..2

\* What earlier runs left in the database: nothing, a user registered
\* without a face, or a user registered with a face and its sample.
PriorStores ==
  {[users |-> <<>>, faceSamples |-> <<>>],
   [users |-> <<[id |-> 1, email |-> "a@x.io", faceDescriptor |-> Null]>>,
    faceSamples |-> <<>>],
   [users |-> <<[id |-> 1, email |-> "a@x.io", faceDescriptor |-> Arr(<<0>>)]>>,
    faceSamples |-> <<[id |-> 1, userId |-> 1, descriptor |-> Arr(<<0>>)]>>]}

\* findOne().sort({ id: -1 }): the highest id of a collection, 0 when the
\* collection is empty (lastUser is null).
MaxId(docs) ==
  IF docs = <<>> THEN 0
  ELSE LET ids == {docs[i].id : i \in 1..Len(docs)}
       IN CHOOSE m \in ids : \A n \in ids : n <= m

\* userSchema: id and email are unique.
UserIndexesIdOnly(us, doc) == \A i \in 1..Len(us) : us[i].id # doc.id
UserIndexes(us, doc) ==
  \A i \in 1..Len(us) : us[i].id # doc.id /\ us[i].email # doc.email
\* faceSampleSchema: id is unique.
SampleIndexes(fs, doc) == \A i \in 1..Len(fs) : fs[i].id # doc.id

\* A request being served.  userId is the id of the request (face sample) or
\* the id createUser took from the counter (registration); sampleId is the
\* id addFaceSample took; found is the descriptor of the user as getUser
\* returned it; created and added tell whether the inserts succeeded; status
\* is 0 until the response is sent.
Served(op, email, userId, fd) ==
  [op |-> op, pc |-> "begin", email |-> email, userId |-> userId,
   faceDescriptor |-> fd, found |-> Null, sampleId |-> 0,
   created |-> FALSE, added |-> FALSE, status |-> 0]
Answer(call, status) == [call EXCEPT !.pc = "done", !.status = status]

\* initCounters, up to the answer of the query it awaits: the query reads
\* the highest id stored at that moment.
InitCountersQuery ==
  /\ serving.init.pc \in {"users", "samples"}
  /\ serving' = [serving EXCEPT !.init =
       IF serving.init.pc = "users"
       THEN [pc |-> "userId", last |-> MaxId(users)]
       ELSE [pc |-> "sampleId", last |-> MaxId(faceSamples)]]
  /\ UNCHANGED <<users, faceSamples, counters, resp, group, trial, matchRun,
                 coding, page, camera>>

\* initCounters resumes: if (last) counters.x = last.id + 1, then the next
\* query is sent or the function ends.
InitCountersResume ==
  /\ serving.init.pc \in {"userId", "sampleId"}
  /\ LET last == serving.init.last IN
     IF serving.init.pc = "userId"
     THEN /\ counters' = IF last # 0 THEN [counters EXCEPT !.userId = last + 1]
                         ELSE counters
          /\ serving' = [serving EXCEPT !.init = [pc |-> "samples", last |-> 0]]
     ELSE /\ counters' = IF last # 0 THEN [counters EXCEPT !.faceSampleId = last + 1]
                         ELSE counters
          /\ serving' = [serving EXCEPT !.init = [pc |-> "done", last |-> 0]]
  /\ UNCHANGED <<users, faceSamples, resp, group, trial, matchRun, coding,
                 page, camera>>

\* POST /api/auth/register, up to the answer of getUserByEmail.
RegisterBegin ==
  /\ Len(serving.calls) < MaxCalls
  /\ \E email \in StoreEmails \cup {NoEmail}, fd \in StoreFaces :
       LET call == Served("register", email, 0, fd) IN
       serving' = [serving EXCEPT !.calls = Append(@,
         IF email = NoEmail THEN Answer(call, 400)
         ELSE IF getUserByEmail(users, email) # {} THEN Answer(call, 409)
         ELSE [call EXCEPT !.pc = "create"])]
  /\ UNCHANGED <<users, faceSamples, counters, resp, group, trial, matchRun,
                 coding, page, camera>>

\* ... resumed after bcrypt.hash: the descriptor is validated and createUser
\* takes the next id and inserts the user; a rejected insert is thrown.
RegisterCreate ==
  \E c \in 1..Len(serving.calls) :
    LET call == serving.calls[c]
        fd == call.faceDescriptor
        user == createUser(call.email, fd)
    IN /\ call.op = "register" /\ call.pc = "create"
       /\ IF Truthy(fd) /\ ~faceDescriptorSchema(fd)
          THEN /\ serving' = [serving EXCEPT !.calls[c] = Answer(call, 400)]
               /\ UNCHANGED <<users, counters>>
          ELSE /\ counters' = [counters EXCEPT !.userId = @ + 1]
               /\ IF UserIndexes(users, user)
                  THEN /\ users' = Append(users, user)
                       /\ serving' = [serving EXCEPT !.calls[c] =
                            IF Truthy(fd)
                            THEN [call EXCEPT !.pc = "sample", !.userId = user.id,
                                              !.created = TRUE]
                            ELSE [Answer(call, 201) EXCEPT !.userId = user.id,
                                                           !.created = TRUE]]
                  ELSE /\ users' = users
                       /\ serving' = [serving EXCEPT !.calls[c] =
                            [Answer(call, 500) EXCEPT !.userId = user.id]]
       /\ UNCHANGED <<faceSamples, resp, group, trial, matchRun, coding,
                      page, camera>>

\* ... resumed after createUser: addFaceSample takes the next id and inserts
\* the sample; a rejected insert is thrown and answered 500.
RegisterSample ==
  \E c \in 1..Len(serving.calls) :
    LET call == serving.calls[c]
        sample == addFaceSample(call.userId, call.faceDescriptor)
    IN /\ call.op = "register" /\ call.pc = "sample"
       /\ counters' = [counters EXCEPT !.faceSampleId = @ + 1]
       /\ IF SampleIndexes(faceSamples, sample)
          THEN /\ faceSamples' = Append(faceSamples, sample)
               /\ serving' = [serving EXCEPT !.calls[c] =
                    [Answer(call, 201) EXCEPT !.sampleId = sample.id, !.added = TRUE]]
          ELSE /\ faceSamples' = faceSamples
               /\ serving' = [serving EXCEPT !.calls[c] =
                    [Answer(call, 500) EXCEPT !.sampleId = sample.id]]
       /\ UNCHANGED <<users, resp, group, trial, matchRun, coding, page, camera>>

\* POST /api/user/face-sample, up to the answer of getUser.
SampleBegin ==
  /\ Len(serving.calls) < MaxCalls
  /\ \E userId \in StoreUserIds, fd \in StoreFaces :
       LET call == Served("sample", "", userId, fd)
           found == getUser(users, userId)
       IN serving' = [serving EXCEPT !.calls = Append(@,
            IF userId = 0 \/ ~Truthy(fd) THEN Answer(call, 400)
            ELSE IF ~faceDescriptorSchema(fd) THEN Answer(call, 400)
            ELSE IF found = {} THEN Answer(call, 404)
            ELSE [call EXCEPT !.pc = "add",
                              !.found = (CHOOSE u \in found : TRUE).faceDescriptor])]
  /\ UNCHANGED <<users, faceSamples, counters, resp, group, trial, matchRun,
                 coding, page, camera>>

\* ... resumed after getUser: addFaceSample; then, if the user it read had no
\* descriptor, the handler goes on to updateUserFaceDescriptor.
SampleAdd ==
  \E c \in 1..Len(serving.calls) :
    LET call == serving.calls[c]
        sample == addFaceSample(call.userId, call.faceDescriptor)
    IN /\ call.op = "sample" /\ call.pc = "add"
       /\ counters' = [counters EXCEPT !.faceSampleId = @ + 1]
       /\ IF SampleIndexes(faceSamples, sample)
          THEN /\ faceSamples' = Append(faceSamples, sample)
               /\ serving' = [serving EXCEPT !.calls[c] =
                    IF ~Truthy(call.found)
                    THEN [call EXCEPT !.pc = "update", !.sampleId = sample.id,
                                      !.added = TRUE]
                    ELSE [Answer(call, 201) EXCEPT !.sampleId = sample.id,
                                                   !.added = TRUE]]
          ELSE /\ faceSamples' = faceSamples
               /\ serving' = [serving EXCEPT !.calls[c] =
                    [Answer(call, 500) EXCEPT !.sampleId = sample.id]]
       /\ UNCHANGED <<users, resp, group, trial, matchRun, coding, page, camera>>

\* ... resumed after addFaceSample: the descriptor of the request becomes the
\* user's descriptor, and the request is answered.
SampleUpdate ==
  \E c \in 1..Len(serving.calls) :
    LET call == serving.calls[c] IN
    /\ call.op = "sample" /\ call.pc = "update"
    /\ users' = updateUserFaceDescriptor(users, call.userId, call.faceDescriptor)
    /\ serving' = [serving EXCEPT !.calls[c] = Answer(call, 201)]
    /\ UNCHANGED <<faceSamples, counters, resp, group, trial, matchRun, coding,
                   page, camera>>

\* The server starts: new MongoStorage() sets both counters to 1 and calls
\* initCounters without awaiting it.
StoreInit ==
  /\ \E prior \in PriorStores :
       users = prior.users /\ faceSamples = prior.faceSamples
  /\ counters = [userId |-> 1, faceSampleId |-> 1]
  /\ serving = [init |-> [pc |-> "users", last |-> 0], calls |-> <<>>]
  /\ resp = NoResp
  /\ group = GroupIdle
  /\ trial = NoTrial
  /\ matchRun = MatchIdle
  /\ coding = NoCoding
  /\ page = NoPage
  /\ camera = NoCamera

StoreNext ==
  \/ InitCountersQuery \/ InitCountersResume
  \/ RegisterBegin \/ RegisterCreate \/ RegisterSample
  \/ SampleBegin \/ SampleAdd \/ SampleUpdate

SpecStore == StoreInit /\ [][StoreNext]_vars

\* ------------------------------------------- the authentication page
\* The page component of the client: its React state, its event handlers
\* and the requests they send.  An event handler runs to its first await
\* in one step, and React renders the state it has set before the next
\* event; a handler that awaits runs on in Settle.  The login form for the
\* face is rendered while usePassword is false, the password form while it
\* is true; the submit buttons and the capture button are disabled while
\* isAuthenticating.  The forms call their handler with values that pass
\* their schema.  videoRef.current is assigned in setVideoRefCallback alone,
\* which is handed to no element: the camera viewport takes no ref and keeps
\* its video element in a ref of its own.  onLogin hands the user to the
\* application, and the page's part ends.

\* The captures of one registration (the page counts them "of 3").
MaxCaptures == 3

\* A Float32Array, as face-api returns a descriptor.
Float32(s) == [tag |-> "float32", v |-> s]
\* new Float32Array(128).fill(0); the model's descriptors have MaxLen components
placeholderDescriptor == Float32([i \in 1..MaxLen |-> 0])
\* getFaceDescriptor: a descriptor, or null when no face is found
Detections == {Null, Float32([i \in 1..MaxLen |-> 5])}
\* descriptorToArray: Array.from(descriptor)
descriptorToArray(descriptor) == Arr(descriptor.v)
\* The e-mail addresses that pass the forms' schema.
PageEmails == {e \in Emails : IsEmail(e)}

\* handleFaceDetection, called by the camera viewport with each detection
FaceDetection ==
  /\ ~page.loggedIn
  /\ \E detected \in BOOLEAN : page' = [page EXCEPT !.hasFace = detected]
  /\ UNCHANGED <<users, faceSamples, counters, resp, group, trial, matchRun,
                 coding, serving, camera>>

\* The buttons "use password instead" and "use face recognition".
TogglePassword ==
  /\ ~page.loggedIn
  /\ page' = [page EXCEPT !.usePassword = ~@]
  /\ UNCHANGED <<users, faceSamples, counters, resp, group, trial, matchRun,
                 coding, serving, camera>>

\* handleCaptureFace from the detection on, with the capturedFaces and the
\* captureStep of the render in which it was called: a missing descriptor is
\* replaced by the placeholder, the descriptor is added and the step counted.
CapturedReplacing(p, faces, step, d) ==
  [p EXCEPT !.capturedFaces = <<IF d = Null THEN placeholderDescriptor ELSE d>>,
            !.captureStep = step + 1,
            !.completed = @ + 1,
            !.toast = IF d = Null THEN "Face capture simulated" ELSE "Face captured"]
Captured(p, faces, step, d) ==
  [p EXCEPT !.capturedFaces =
              Append(faces, IF d = Null THEN placeholderDescriptor ELSE d),
            !.captureStep = step + 1,
            !.completed = @ + 1,
            !.toast = IF d = Null THEN "Face capture simulated" ELSE "Face captured"]

\* handleCaptureFace: with a video element it awaits getFaceDescriptor;
\* without one it goes on at once, with no descriptor.
CaptureFace ==
  /\ ~page.loggedIn /\ ~page.isAuthenticating
  /\ page.completed + Len(page.captures) < MaxCaptures
  /\ page' = IF page.videoRef # Null
             THEN [page EXCEPT !.captures = Append(@,
                     [capturedFaces |-> page.capturedFaces,
                      captureStep |-> page.captureStep])]
             ELSE Captured(page, page.capturedFaces, page.captureStep, Null)
  /\ UNCHANGED <<users, faceSamples, counters, resp, group, trial, matchRun,
                 coding, serving, camera>>

\* handleLogin, to its first await or to its return.
LoginSubmit ==
  /\ ~page.loggedIn /\ ~page.isAuthenticating /\ ~page.usePassword
  /\ \E email \in PageEmails :
       page' =
         IF ~page.hasFace /\ ~page.usePassword
         THEN [page EXCEPT !.toast = "No face detected"]
         ELSE IF ~page.usePassword
         THEN IF page.videoRef # Null
              THEN [page EXCEPT !.isAuthenticating = TRUE, !.invoked = "login",
                                !.handler = "login", !.awaiting = "detect",
                                !.request = [email |-> email,
                                             faceDescriptor |-> Undefined]]
              ELSE [page EXCEPT !.invoked = "login",
                                !.toast = "Camera not available",
                                !.usePassword = TRUE,
                                !.isAuthenticating = FALSE]
         ELSE [page EXCEPT !.isAuthenticating = TRUE, !.invoked = "login",
                           !.handler = "login", !.awaiting = "request",
                           !.sent = "password",
                           !.request = [email |-> email,
                                        faceDescriptor |-> Undefined]]
  /\ UNCHANGED <<users, faceSamples, counters, resp, group, trial, matchRun,
                 coding, serving, camera>>

\* handleLogin resumed after getFaceDescriptor: without a descriptor it falls
\* back to the password form, with one it sends the face login.
LoginDetected(p, d) ==
  IF d = Null
  THEN [p EXCEPT !.toast = "Camera not available", !.usePassword = TRUE,
                 !.isAuthenticating = FALSE, !.handler = "none",
                 !.awaiting = "none"]
  ELSE [p EXCEPT !.awaiting = "request", !.sent = "face",
                 !.request = [email |-> p.request.email,
                              faceDescriptor |-> descriptorToArray(d)]]

\* handlePasswordLogin, to its await of loginWithPassword.
PasswordSubmit ==
  /\ ~page.loggedIn /\ ~page.isAuthenticating /\ page.usePassword
  /\ \E email \in PageEmails :
       page' = [page EXCEPT !.isAuthenticating = TRUE, !.invoked = "password",
                            !.handler = "password", !.awaiting = "request",
                            !.sent = "password",
                            !.request = [email |-> email,
                                         faceDescriptor |-> Undefined]]
  /\ UNCHANGED <<users, faceSamples, counters, resp, group, trial, matchRun,
                 coding, serving, camera>>

\* handleRegister, to its await of registerUser: the first captured face, if
\* there is one, is sent as the face descriptor.
RegisterSubmit ==
  /\ ~page.loggedIn /\ ~page.isAuthenticating
  /\ \E email \in PageEmails :
       page' = [page EXCEPT !.isAuthenticating = TRUE, !.invoked = "register",
                            !.handler = "register", !.awaiting = "request",
                            !.sent = "register",
                            !.request =
                              [email |-> email,
                               faceDescriptor |->
                                 IF Len(page.capturedFaces) > 0
                                 THEN descriptorToArray(page.capturedFaces[1])
                                 ELSE Undefined]]
  /\ UNCHANGED <<users, faceSamples, counters, resp, group, trial, matchRun,
                 coding, serving, camera>>

\* The server answers the request of the page.  The password login compares
\* a hash, which the model does not carry: it succeeds or fails.
Serve ==
  /\ page.awaiting = "request"
  /\ resp = NoResp
  /\ IF page.sent = "register"
     THEN RegisterRoute(page.request.email, page.request.faceDescriptor)
     ELSE /\ IF page.sent = "face"
             THEN resp' = LoginResponse(users, page.request)
             ELSE \E status \in {200, 401} :
                    resp' = Resp("password", page.request, status, "", NoToken, NoBody)
          /\ UNCHANGED <<users, faceSamples, counters, group, trial, matchRun,
                         coding, serving, page, camera>>

\* A handler resumed after its request: apiRequest throws unless the status
\* is 2xx; onLogin on success, a toast in the catch, and in every case the
\* finally block.
HandlerSettledNoFinally(p, ok) ==
  [p EXCEPT !.loggedIn = ok,
            !.toast = IF ok THEN "successful" ELSE "failed",
            !.isAuthenticating = ~ok,
            !.handler = "none", !.awaiting = "none"]
HandlerSettled(p, ok) ==
  [p EXCEPT !.loggedIn = ok,
            !.toast = IF ok THEN "successful" ELSE "failed",
            !.isAuthenticating = FALSE,
            !.handler = "none", !.awaiting = "none"]

\* What the page awaits and can run on with: a detection of a capture, the
\* detection of the login, or the response to its request.
Awaited ==
  {[kind |-> "capture", i |-> i] : i \in 1..Len(page.captures)}
    \cup (IF page.awaiting = "detect" \/ (page.awaiting = "request" /\ resp # NoResp)
          THEN {[kind |-> "handler", i |-> 0]} ELSE {})

\* An awaited promise settles and its handler runs on.
Settle ==
  /\ \E k \in Awaited, d \in Detections :
       IF k.kind = "capture"
       THEN /\ page' = Captured(
                 [page EXCEPT !.captures =
                    SubSeq(@, 1, k.i - 1) \o SubSeq(@, k.i + 1, Len(@))],
                 page.captures[k.i].capturedFaces,
                 page.captures[k.i].captureStep, d)
            /\ resp' = resp
       ELSE IF page.awaiting = "detect"
       THEN /\ page' = LoginDetected(page, d)
            /\ resp' = resp
       ELSE /\ page' = HandlerSettled(page, resp.status \in 200..299)
            /\ resp' = NoResp
  /\ UNCHANGED <<users, faceSamples, counters, group, trial, matchRun, coding,
                 serving, camera>>

\* The page is opened; the server runs, with nobody registered or with one
\* user registered with a face.
PageInit ==
  /\ \E prior \in {0, 1} :
       /\ users = IF prior = 0 THEN <<>>
                  ELSE <<[id |-> 1, email |-> "a@x.io",
                          faceDescriptor |-> Arr([i \in 1..MaxLen |-> 5])]>>
       /\ faceSamples = IF prior = 0 THEN <<>>
                        ELSE <<[id |-> 1, userId |-> 1,
                                descriptor |-> Arr([i \in 1..MaxLen |-> 5])]>>
       /\ counters = [userId |-> prior + 1, faceSampleId |-> prior + 1]
  /\ resp = NoResp
  /\ group = GroupIdle
  /\ trial = NoTrial
  /\ matchRun = MatchIdle
  /\ coding = NoCoding
  /\ serving = NoServing
  /\ page = NoPage
  /\ camera = NoCamera

PageNext ==
  \/ FaceDetection \/ TogglePassword \/ CaptureFace
  \/ LoginSubmit \/ PasswordSubmit \/ RegisterSubmit
  \/ Serve \/ Settle

\* The server answers every request, and the event loop runs a handler on
\* once the promise it awaits has settled.
SpecPage == PageInit /\ [][PageNext]_vars /\ WF_vars(Serve) /\ WF_vars(Settle)

\* --------------------------------------------------- the camera viewport
\* The effect of the camera viewport that starts the camera and the face
\* detection.  React runs it when the viewport is mounted and again whenever
\* one of its dependencies has changed, each time after the cleanup of the
\* run before.  A run awaits initCamera, which awaits getUserMedia and then
\* the loadedmetadata event of the video element; the cleanup may come at
\* any of these points.  detectionInterval is a variable of the run.  The
\* stream a run opens carries the number of the run.

\* The runs of the effect.
MaxRuns == 3

\* One run: where it stands, the stream it has opened (0: none), whether an
\* interval it created is set, whether its cleanup has run.
EffectRun(webGL) ==
  [pc |-> "camera", stream |-> 0, webGLSupported |-> webGL,
   interval |-> FALSE, cleaned |-> FALSE]

\* The effect body: autoStart is true and the video element is rendered, so
\* startCamera calls initCamera and awaits it.
RunEffect ==
  /\ Len(camera.runs) < MaxRuns
  /\ \A r \in 1..Len(camera.runs) : camera.runs[r].cleaned
  /\ \E webGL \in BOOLEAN :
       camera' = [camera EXCEPT !.runs = Append(@, EffectRun(webGL))]
  /\ UNCHANGED <<users, faceSamples, counters, resp, group, trial, matchRun,
                 coding, serving, page>>

\* initCamera up to the stream: the camera is refused (not supported, no
\* secure context, getUserMedia rejected twice) and startCamera reports the
\* error, or a stream is opened and set on the video element.
CameraAnswer ==
  \E r \in 1..Len(camera.runs), opened \in BOOLEAN :
    /\ camera.runs[r].pc = "camera"
    /\ camera' =
         IF opened
         THEN [camera EXCEPT !.runs[r].pc = "metadata", !.runs[r].stream = r,
                             !.srcObject = r, !.live = @ \cup {r}]
         ELSE [camera EXCEPT !.runs[r].pc = "failed"]
    /\ UNCHANGED <<users, faceSamples, counters, resp, group, trial, matchRun,
                   coding, serving, page>>

\* The video element has loaded the metadata of the stream: initCamera
\* resolves with success and startCamera sets the detection interval, if
\* WebGL is supported.
MetadataLoaded ==
  \E r \in 1..Len(camera.runs) :
    /\ camera.runs[r].pc = "metadata"
    /\ camera.srcObject = camera.runs[r].stream
    /\ camera' = [camera EXCEPT !.runs[r].pc = "active",
                                !.runs[r].interval = camera.runs[r].webGLSupported]
    /\ UNCHANGED <<users, faceSamples, counters, resp, group, trial, matchRun,
                   coding, serving, page>>

\* stopCamera: the tracks of the stream on the video element are stopped and
\* the stream is taken off the element.
stopCamera(cam) ==
  IF cam.srcObject # 0
  THEN [cam EXCEPT !.live = @ \ {cam.srcObject}, !.srcObject = 0]
  ELSE cam

\* The cleanup of a run: clearInterval if the run has set detectionInterval,
\* then stopCamera on the video element.
Cleanup ==
  \E r \in 1..Len(camera.runs) :
    /\ ~camera.runs[r].cleaned
    /\ camera' = [stopCamera(camera) EXCEPT !.runs[r].interval = FALSE,
                                            !.runs[r].cleaned = TRUE]
    /\ UNCHANGED <<users, faceSamples, counters, resp, group, trial, matchRun,
                   coding, serving, page>>

CameraInit ==
  /\ users = <<>>
  /\ faceSamples = <<>>
  /\ counters = [userId |-> 1, faceSampleId |-> 1]
  /\ resp = NoResp
  /\ group = GroupIdle
  /\ trial = NoTrial
  /\ matchRun = MatchIdle
  /\ coding = NoCoding
  /\ serving = NoServing
  /\ page = NoPage
  /\ camera = NoCamera

CameraNext == RunEffect \/ CameraAnswer \/ MetadataLoaded \/ Cleanup

SpecCamera == CameraInit /\ [][CameraNext]_vars

\* ================================================================ claims
\* What the caller sees of a response: the status and the message.
Outcome(r) == <<r.status, r.message>>

\* The mathematical distance of two arrays of equal length is below 0.6.
Closer(stored, probe) ==
  /\ stored.tag = "array" /\ probe.tag = "array"
  /\ Len(stored.v) = Len(probe.v)
  /\ SqDiff(stored.v, probe.v) < Threshold * Threshold

\* The four conditions of the face-login claim, for the request answered.
LoginConditions(q) ==
  \E u \in getUserByEmail(users, q.email) :
    /\ q.faceDescriptor.tag # "undefined"
    /\ u.faceDescriptor # Null
    /\ Closer(u.faceDescriptor, q.faceDescriptor)

\* C1, as claimed: the face login issues a token if and only if the user
\* exists, a probe was supplied, the user has a stored descriptor and their
\* euclidean distance is strictly below 0.6.
C1_AsClaimed ==
  resp.op = "login" => ((resp.token # NoToken) <=> LoginConditions(resp.req))

\* C1, amended: the face login issues a token if and only if the request
\* passes the login schema (a well-formed e-mail address; the probe absent or
\* an array of numbers), the user exists, a probe was supplied, the user has
\* a stored descriptor of the probe's length and their euclidean distance is
\* strictly below 0.6.  A distance equal to 0.6, a missing probe and a
\* missing stored descriptor yield no token.
C1_TokenIffCloseFace ==
  resp.op = "login" =>
    /\ (resp.token # NoToken) <=> (loginUserSchema(resp.req) /\ LoginConditions(resp.req))
    /\ (resp.token # NoToken) => (resp.status = 200 /\ resp.token.email = resp.req.email)

\* C1, witness: a token issued for a probe at distance 0.5 of the stored descriptor.
C1_Witness ==
  /\ resp.op = "login" /\ resp.token # NoToken
  /\ \E u \in getUserByEmail(users, resp.req.email) :
       SqDiff(u.faceDescriptor.v, resp.req.faceDescriptor.v) = 25

\* ------------------------------------------------- group authentication
\* Member m authenticates individually against the storage us.
MemberAuthentic(us, m) ==
  /\ m.tag = "object"
  /\ \E u \in getUserByEmail(us, m.email) : Closer(u.faceDescriptor, m.faceDescriptor)

GroupAnswered == resp.op = "group" /\ resp.status = 200
BatchOf(r) == r.req.groupMembers.v
AuthenticMembers(r) == {i \in 1..Len(BatchOf(r)) : MemberAuthentic(users, BatchOf(r)[i])}

\* C2, as claimed: for every requiredCount the caller supplies (0 and values
\* above the batch size included), groupAuthenticated is true exactly when
\* the number of members that authenticate individually is at least that
\* requiredCount, and authenticatedCount is that number.
C2_AsClaimed ==
  (GroupAnswered /\ resp.req.requiredMembers.tag = "number") =>
    /\ resp.body.authenticatedCount = Cardinality(AuthenticMembers(resp))
    /\ resp.body.groupAuthenticated <=>
         (Cardinality(AuthenticMembers(resp)) >= resp.req.requiredMembers.n)

\* C3: when the caller omits requiredCount the quorum is the batch size:
\* groupAuthenticated is true if and only if every member of the batch
\* authenticates individually.
C3_DefaultQuorumIsUnanimous ==
  (GroupAnswered /\ resp.req.requiredMembers = NoCount) =>
    /\ resp.body.requiredMembers = Len(BatchOf(resp))
    /\ resp.body.groupAuthenticated <=>
         (\A i \in 1..Len(BatchOf(resp)) : MemberAuthentic(users, BatchOf(resp)[i]))

\* C3, witness: requiredCount omitted, two members, one of whom fails, and
\* the group is refused.
C3_Witness ==
  /\ GroupAnswered /\ resp.req.requiredMembers = NoCount
  /\ Len(BatchOf(resp)) = 2
  /\ Cardinality(AuthenticMembers(resp)) = 1
  /\ ~resp.body.groupAuthenticated

\* The result of member m evaluated alone against the storage us.
ExpectedResult(us, m) ==
  IF ~faceDescriptorSchema(m.faceDescriptor) THEN MemberBegin(m) ELSE MemberResult(us, m)

\* C4: the per-member list of a group result has exactly one entry per input
\* member and entry i reports input member i, whatever the order in which
\* the members' identity lookups complete.
C4_ResultsInInputOrder ==
  GroupAnswered =>
    /\ Len(resp.body.members) = Len(BatchOf(resp))
    /\ \A i \in 1..Len(BatchOf(resp)) :
         /\ resp.body.members[i].email = BatchOf(resp)[i].email
         /\ resp.body.members[i] = ExpectedResult(users, BatchOf(resp)[i])

\* C4, witness: a result for two members with different e-mails whose
\* lookups completed in the reverse of the input order.
C4_Witness ==
  /\ GroupAnswered
  /\ group.order = <<2, 1>>
  /\ BatchOf(resp)[1].email # BatchOf(resp)[2].email

\* C5, as claimed: over a non-empty batch the failure of a member (a
\* malformed entry included) is recorded in that member's result as
\* authenticated = false and never aborts the request, which returns the
\* full per-member report.
C5_AsClaimed ==
  (resp.op = "group" /\ resp.req.groupMembers.tag = "array" /\ Len(BatchOf(resp)) > 0) =>
    /\ resp.status = 200
    /\ Len(resp.body.members) = Len(BatchOf(resp))
    /\ \A i \in 1..Len(BatchOf(resp)) :
         ~MemberAuthentic(users, BatchOf(resp)[i]) => ~resp.body.members[i].authenticated

\* Member i of the answered request names a user without enrolled descriptor.
NotEnrolled(r, i) ==
  /\ BatchOf(r)[i].tag = "object"
  /\ \E u \in getUserByEmail(users, BatchOf(r)[i].email) : u.faceDescriptor = Null

\* C6, as claimed: a member whose identity has no enrolled descriptor is
\* reported as authenticated = false with the error "no enrollment" and is
\* not counted, whatever probe the member supplied.
C6_AsClaimed ==
  GroupAnswered =>
    \A i \in 1..Len(BatchOf(resp)) :
      NotEnrolled(resp, i) =>
        /\ ~resp.body.members[i].authenticated
        /\ resp.body.members[i].error = "no enrollment"

\* C6, amended: a member whose identity has no enrolled descriptor is
\* reported as authenticated = false and is never counted, whatever the
\* member supplied as probe; its error is "No face descriptor registered"
\* when the probe is an array of numbers and "Invalid face descriptor" when
\* it is not.
C6_NotEnrolledNeverCounted ==
  GroupAnswered =>
    /\ \A i \in 1..Len(BatchOf(resp)) :
         NotEnrolled(resp, i) =>
           /\ ~resp.body.members[i].authenticated
           /\ resp.body.members[i].error =
                IF BatchOf(resp)[i].faceDescriptor.tag = "array"
                THEN "No face descriptor registered"
                ELSE "Invalid face descriptor"
    /\ resp.body.authenticatedCount <=
         Cardinality({i \in 1..Len(BatchOf(resp)) : ~NotEnrolled(resp, i)})

\* C6, witness: a result with a member who has no enrolled descriptor and
\* supplied an array of numbers as probe.
C6_Witness ==
  /\ GroupAnswered
  /\ \E i \in 1..Len(BatchOf(resp)) :
       NotEnrolled(resp, i) /\ BatchOf(resp)[i].faceDescriptor.tag = "array"

\* C7: a group authentication whose member batch is empty, missing or no
\* list is rejected as a caller error before any evaluation: no identity
\* lookup is made and no group result is produced.
C7_EmptyGroupRejected ==
  (/\ group.phase # "idle"
   /\ (group.req.groupMembers.tag # "array" \/ Len(group.req.groupMembers.v) = 0))
  => /\ group.phase = "done" /\ group.lookups = 0 /\ group.slots = <<>>
     /\ resp.op = "group" /\ resp.req = group.req
     /\ resp.status = 400 /\ resp.body = NoBody

\* C7, witness: the empty batch answered with 400.
C7_Witness ==
  /\ resp.op = "group" /\ resp.status = 400
  /\ resp.req.groupMembers = Arr(<<>>)

\* ------------------------------------------------------- error outcomes
\* The storage with the descriptor of the user of that e-mail replaced.
Enrolled(us, email, fd) ==
  [i \in 1..Len(us) |-> IF us[i].email = email
                        THEN [us[i] EXCEPT !.faceDescriptor = fd] ELSE us[i]]

\* C8, as claimed: a probe authenticated against an identity that exists
\* but has no enrolled descriptor fails with an outcome the caller can tell
\* apart from that of a face that did not match.
C8_AsClaimed ==
  (/\ resp.op = "login"
   /\ loginUserSchema(resp.req)
   /\ resp.req.faceDescriptor.tag = "array"
   /\ \E u \in getUserByEmail(users, resp.req.email) : u.faceDescriptor = Null)
  => \A stored \in Descriptors :
       (Len(stored.v) = Len(resp.req.faceDescriptor.v) /\ ~Closer(stored, resp.req.faceDescriptor))
       => Outcome(LoginResponse(Enrolled(users, resp.req.email, stored), resp.req))
            # Outcome(resp)

\* C9: for every two vectors of unequal length each of euclidean, manhattan
\* and cosine, of the client and of the server, fails with an error and
\* returns no number.
C9_UnequalLengthsThrow ==
  (trial.fn # "none" /\ Len(trial.a) # Len(trial.b)) =>
    (trial.out.thrown /\ trial.out.msg # "" /\ ~trial.out.nan)

\* C9, witness: the client's manhattan distance called with a vector of
\* length 2 and a vector of length 1.
C9_Witness ==
  /\ trial.fn = "client.manhattanDistance"
  /\ Len(trial.a) = 2 /\ Len(trial.b) = 1
  /\ trial.out.thrown

\* The request compares two arrays of different lengths.
LoginMismatch(us, q) ==
  /\ loginUserSchema(q) /\ q.faceDescriptor.tag = "array"
  /\ \E u \in getUserByEmail(us, q.email) :
       u.faceDescriptor.tag = "array" /\ Len(u.faceDescriptor.v) # Len(q.faceDescriptor.v)
SimilarityMismatch(q) ==
  similarityTestSchema(q) /\ Len(q.face1.v) # Len(q.face2.v)
MatchMismatch(us, q) ==
  /\ matchTestSchema(q)
  /\ \E i \in 1..Len(us) :
       us[i].faceDescriptor.tag = "array" /\ Len(us[i].faceDescriptor.v) # Len(q.probeFace.v)

\* The response is a failure that carries no token and no score.
BareFailure(r) == r.status >= 400 /\ r.token = NoToken /\ r.body = NoBody

\* C10: in compare, authenticate and match a length mismatch of the
\* compared descriptors fails that request alone, with a failure outcome
\* that no request of the same operation without a length mismatch gets.
C10_MismatchIsItsOwnFailure ==
  /\ (resp.op = "similarity" /\ SimilarityMismatch(resp.req)) =>
       /\ BareFailure(resp)
       /\ \A q \in SimilarityRequests :
            ~SimilarityMismatch(q) => Outcome(SimilarityResponse(q)) # Outcome(resp)
  /\ (resp.op = "login" /\ LoginMismatch(users, resp.req)) =>
       /\ BareFailure(resp)
       /\ \A q \in LoginRequests :
            ~LoginMismatch(users, q) => Outcome(LoginResponse(users, q)) # Outcome(resp)
  /\ (resp.op = "match" /\ MatchMismatch(users, resp.req)) =>
       /\ BareFailure(resp)
       /\ \A q \in MatchRequests :
            ~MatchMismatch(users, q) => Outcome(MatchResponse(users, q)) # Outcome(resp)

\* C10, witness: a match request whose probe has another length than a
\* stored descriptor, answered with a failure.
C10_Witness ==
  /\ resp.op = "match" /\ MatchMismatch(users, resp.req)
  /\ resp.status = 500

\* ------------------------------------------------- fixed dimensionality
\* The extractor's fixed dimensionality, on the scale of the model: the
\* longest descriptor a request carries.  Every shorter array, the empty one
\* included, is a descriptor of the wrong dimensionality.
Dimensionality == MaxLen
WrongLength(x) == x.tag = "array" /\ Len(x.v) # Dimensionality

\* C11, as claimed: compare, authenticate, match and enrollment reject every
\* descriptor whose length is not the extractor's dimensionality (the empty
\* descriptor and two descriptors of the same wrong length included): the
\* request fails without score, decision or token, and no descriptor of a
\* wrong length is ever stored.
C11_AsClaimed ==
  /\ (resp.op = "similarity" /\ (WrongLength(resp.req.face1) \/ WrongLength(resp.req.face2)))
       => BareFailure(resp)
  /\ (resp.op = "login" /\ WrongLength(resp.req.faceDescriptor)) => BareFailure(resp)
  /\ (resp.op = "match" /\ WrongLength(resp.req.probeFace)) => BareFailure(resp)
  /\ (resp.op = "register" /\ WrongLength(resp.req.faceDescriptor)) => BareFailure(resp)
  /\ \A i \in 1..Len(users) : ~WrongLength(users[i].faceDescriptor)
  /\ \A i \in 1..Len(faceSamples) : ~WrongLength(faceSamples[i].descriptor)

\* ---------------------------------------------------- cosine of a zero
\* C12, as claimed: for two vectors of equal length of which at least one
\* has magnitude 0, cosine returns the number 0 (no NaN, no error), in the
\* client's and in the server's implementation.
C12_AsClaimed ==
  (/\ trial.fn \in {"client.cosineSimilarity", "server.cosineSimilarity"}
   /\ Len(trial.a) = Len(trial.b)
   /\ (Dot(trial.a, trial.a) = 0 \/ Dot(trial.b, trial.b) = 0))
  => trial.out = Num(0)

\* ------------------------------------------------ match against population
\* Math.exp(-distance) in thousandths, rounded down, by the radicand of the
\* distance (in hundredths): exp(0), exp(-0.1), exp(-0.2), exp(-0.3),
\* exp(-0.4), exp(-0.5), exp(-0.6).  x >= 0.75 iff floor(1000 x) >= 750.
ExpNeg(radicand) ==
  CASE radicand = 0 -> 1000 [] radicand = 1 -> 904 [] radicand = 4 -> 818
    [] radicand = 9 -> 740 [] radicand = 16 -> 670 [] radicand = 25 -> 606
    [] radicand = 36 -> 548
Score(row) == ExpNeg(row.similarity.val)

\* A match request has been answered with a result.
MatchAnswered == resp.op = "match" /\ resp.status = 200 /\ matchRun.phase = "done"
\* The place of a user in the population the storage supplied.
PopIndex(userId) == CHOOSE i \in 1..Len(matchRun.allFaces) : matchRun.allFaces[i].userId = userId
\* The members of the population whose identity resolved / did not resolve.
Resolved == {i \in 1..Len(matchRun.rows) : matchRun.rows[i].state = "match"}
Unresolved == {i \in 1..Len(matchRun.rows) : matchRun.rows[i].state = "null"}

\* C13: the list of a match result is ordered by similarity, highest first
\* (each row's similarity is at least the next row's), and rows of equal
\* similarity keep their population order, for every population and every
\* completion order of the rows' identity lookups.
C13_RankedBySimilarity ==
  MatchAnswered =>
    \A k \in 1..(Len(resp.body.matches) - 1) :
      LET row == resp.body.matches[k]
          next == resp.body.matches[k + 1]
      IN /\ Score(row) >= Score(next)
         /\ Score(row) = Score(next) => PopIndex(row.userId) < PopIndex(next.userId)

\* C13, witness: a result whose lookups completed out of input order, with
\* two rows of equal similarity and a row that the sort moved ahead of an
\* earlier member of the population.
C13_Witness ==
  /\ MatchAnswered /\ matchRun.outOfOrder
  /\ \E k \in 1..(Len(resp.body.matches) - 1) :
       Score(resp.body.matches[k]) = Score(resp.body.matches[k + 1])
  /\ \E k \in 1..(Len(resp.body.matches) - 1) :
       PopIndex(resp.body.matches[k].userId) > PopIndex(resp.body.matches[k + 1].userId)

\* The population has 5 enrolled descriptors and the probe equals the
\* descriptor of population[2], the third member.
ProbeIsThirdOfFive ==
  /\ resp.op = "match" /\ matchRun.phase = "done"
  /\ Len(matchRun.allFaces) = 5
  /\ matchRun.req.probeFace = matchRun.allFaces[3].descriptor

\* C14, as claimed: with a population of 5 enrolled descriptors and a probe
\* equal to the descriptor of population[2], the first row of the ranked
\* list is population[2], with similarity 1.0.
C14_AsClaimed ==
  ProbeIsThirdOfFive =>
    /\ resp.status = 200
    /\ Len(resp.body.matches) >= 1
    /\ resp.body.matches[1].userId = matchRun.allFaces[3].userId
    /\ Score(resp.body.matches[1]) = 1000

\* The resolved members whose descriptor equals the probe.
EqualToProbe == {i \in Resolved : matchRun.allFaces[i].descriptor = matchRun.req.probeFace}

\* C14, amended: with a population of 5 enrolled descriptors of one length
\* and a probe equal to the descriptor of population[2], the request
\* succeeds; when the identity of population[2] resolves the first row has
\* similarity 1.0 and is the earliest member of the population that resolves
\* and holds that descriptor, so it is population[2] exactly when no earlier
\* resolving member holds the same descriptor; when the identity of
\* population[2] does not resolve, population[2] is in no row.
C14_EarliestEqualMemberFirst ==
  ProbeIsThirdOfFive =>
    /\ resp.status = 200
    /\ 3 \in Resolved =>
         /\ Score(resp.body.matches[1]) = 1000
         /\ PopIndex(resp.body.matches[1].userId) \in EqualToProbe
         /\ \A i \in EqualToProbe : PopIndex(resp.body.matches[1].userId) <= i
    /\ 3 \notin Resolved =>
         \A k \in 1..Len(resp.body.matches) :
           resp.body.matches[k].userId # matchRun.allFaces[3].userId

\* C14, witness: the five members all resolve, the two members before
\* population[2] hold another descriptor, and population[2] is ranked first.
C14_Witness ==
  /\ ProbeIsThirdOfFive /\ Resolved = 1..5
  /\ matchRun.allFaces[1].descriptor # matchRun.req.probeFace
  /\ matchRun.allFaces[2].descriptor # matchRun.req.probeFace
  /\ resp.body.matches[1].userId = matchRun.allFaces[3].userId

\* C15: a match result has exactly one row for each member of the
\* population whose identity resolves and no row for a member whose identity
\* does not; an unresolved member never fails the request (a request whose
\* probe is an array of the population's length succeeds); the list is not
\* cut: only the client's display is, to the first 3 rows.
C15_OneRowPerResolvedMember ==
  /\ MatchAnswered =>
       /\ Len(resp.body.matches) = Cardinality(Resolved)
       /\ \A i \in Resolved :
            Cardinality({k \in 1..Len(resp.body.matches) :
                           resp.body.matches[k].userId = matchRun.allFaces[i].userId}) = 1
       /\ \A i \in Unresolved :
            \A k \in 1..Len(resp.body.matches) :
              resp.body.matches[k].userId # matchRun.allFaces[i].userId
       /\ topMatches(resp.body.matches) =
            [k \in 1..Min(3, Cardinality(Resolved)) |-> resp.body.matches[k]]
  /\ (/\ resp.op = "match" /\ matchRun.phase = "done"
      /\ matchTestSchema(matchRun.req)
      /\ \A i \in 1..Len(matchRun.allFaces) :
           Len(matchRun.allFaces[i].descriptor.v) = Len(matchRun.req.probeFace.v))
     => resp.status = 200

\* C15, witness: a population of 5 of which one member does not resolve:
\* the result has the 4 other rows, more than the client displays.
C15_Witness ==
  /\ MatchAnswered
  /\ Len(matchRun.allFaces) = 5
  /\ Cardinality(Unresolved) = 1
  /\ Len(resp.body.matches) = 4
  /\ Len(topMatches(resp.body.matches)) = 3

C17_TotalFacesIsPopulationSize ==
  MatchAnswered =>
    /\ resp.body.totalFaces = Len(matchRun.allFaces)
    /\ 0 <= resp.body.matchedAboveThreshold
    /\ resp.body.matchedAboveThreshold <= Len(resp.body.matches)
    /\ Len(resp.body.matches) <= resp.body.totalFaces

\* C17, witness: a result with fewer rows than totalFaces (a member was
\* dropped) and fewer counted rows than rows.
C17_Witness ==
  /\ MatchAnswered
  /\ Unresolved # {}
  /\ 0 < resp.body.matchedAboveThreshold
  /\ resp.body.matchedAboveThreshold < Len(resp.body.matches)
  /\ Len(resp.body.matches) < resp.body.totalFaces

\* C18: the three headline figures depend on matchedAboveThreshold alone:
\* tpr is 0.953 with at least one counted row and 0 otherwise, fpr is 0.042
\* with more than one and 0 otherwise, accuracy is 0.921 with at least one
\* and 0.5 otherwise (figures in thousandths).
C18_FiguresGatedByCount ==
  MatchAnswered =>
    /\ resp.body.tpr = (IF resp.body.matchedAboveThreshold >= 1 THEN 953 ELSE 0)
    /\ resp.body.fpr = (IF resp.body.matchedAboveThreshold >= 2 THEN 42 ELSE 0)
    /\ resp.body.accuracy = (IF resp.body.matchedAboveThreshold >= 1 THEN 921 ELSE 500)

\* C18, witness: exactly one counted row: tpr and accuracy take their high
\* constants while fpr stays 0.
C18_Witness ==
  /\ MatchAnswered
  /\ resp.body.matchedAboveThreshold = 1
  /\ resp.body.tpr = 953 /\ resp.body.fpr = 0 /\ resp.body.accuracy = 921

\* ------------------------------------------------------ descriptor codec
Decoders == {"client.decryptFaceData", "server.decryptFaceData"}
\* The number of delimiters of a token.
Delimiters(token) == Len(Split(token, ":")) - 1

\* C19: for every descriptor (the empty one and those with negative or
\* fractional values included), every key and every encoding time or iv,
\* decoding the token that encoding produced returns exactly the descriptor,
\* in the client's and in the server's codec.
C19_RoundTrip ==
  (coding.fn \in Decoders /\ coding.input = coding.token) => coding.out = Decoded(coding.v)

\* C19, witness: the server's decoder returned the descriptor [-0.5, 1.2]
\* from the token of the server's encoder.
C19_Witness ==
  /\ coding.fn = "server.decryptFaceData" /\ coding.input = coding.token
  /\ coding.v = <<-5, 12>>
  /\ coding.out = Decoded(<<-5, 12>>)

\* C20, as claimed: decoding a token that has not exactly one delimiter
\* (none, or two or more) fails with an error and returns no descriptor, in
\* the client's and in the server's codec.
C20_AsClaimed ==
  (coding.fn \in Decoders /\ Delimiters(coding.input) # 1) => coding.out.thrown

\* ------------------------------------------- requests served step by step
\* The ids of a collection, and the ids the storage has handed to the
\* requests served so far.
Ids(docs) == {docs[i].id : i \in 1..Len(docs)}
TakenUserIds(calls) ==
  {calls[c].userId : c \in {d \in 1..Len(calls) : calls[d].op = "register"}} \ {0}
TakenSampleIds(calls) == {calls[c].sampleId : c \in 1..Len(calls)} \ {0}

\* C21, as claimed: a user's canonical descriptor is set by the first
\* enrolment only; once it is non-null no step of a registration or of a
\* face-sample request changes it, however the requests interleave.
C21_AsClaimed ==
  [][\A i \in 1..Len(users) :
       users[i].faceDescriptor # Null
         => users'[i].faceDescriptor = users[i].faceDescriptor]_vars

\* C25, as claimed: every id the storage hands to a new user or face sample
\* differs from every id stored and from every id it handed out earlier,
\* however createUser and addFaceSample interleave with initCounters.
C25_AsClaimed ==
  [][\A c \in 1..Len(serving.calls) :
       LET before == serving.calls[c]
           after == serving'.calls[c]
       IN /\ (after.op = "register" /\ after.userId # before.userId)
               => after.userId \notin Ids(users) \cup TakenUserIds(serving.calls)
          /\ after.sampleId # before.sampleId
               => after.sampleId \notin Ids(faceSamples) \cup TakenSampleIds(serving.calls)]_vars

\* C26: no two stored users have the same e-mail address, however the
\* steps of concurrent registrations interleave.
C26_NoTwoUsersShareAnEmail ==
  \A i, j \in 1..Len(users) : users[i].email = users[j].email => i = j

\* C26, witness: two registrations with one e-mail address both passed the
\* existence check; one created its user, and the insert of the other was
\* rejected although the id it carried was free.
C26_Witness ==
  \E c, d \in 1..Len(serving.calls) :
    /\ c # d
    /\ serving.calls[c].op = "register" /\ serving.calls[d].op = "register"
    /\ serving.calls[c].email = serving.calls[d].email
    /\ serving.calls[c].created
    /\ serving.calls[d].status = 500 /\ ~serving.calls[d].created
    /\ serving.calls[d].userId \notin Ids(users)

\* C27, as claimed: a registration answered with an error (400, 409 or 500)
\* has created no user and no face sample.
C27_AsClaimed ==
  \A c \in 1..Len(serving.calls) :
    (serving.calls[c].op = "register" /\ serving.calls[c].status \in {400, 409, 500})
      => ~serving.calls[c].created /\ ~serving.calls[c].added

\* A step of a comparison route: a face login, a comparison of two faces, a
\* match or a group authentication is answered, or a group authentication
\* starts or takes the answer of one of its lookups.
ComparisonStep ==
  \/ resp' # resp /\ resp'.op \in {"login", "similarity", "match", "group"}
  \/ group' # group /\ group'.phase \in {"running", "done"}

\* C22: a face login, a comparison of two faces, a match and a group
\* authentication (its start and each of its lookups) leave the stored
\* users, their descriptors, the face samples and the id counters unchanged.
C22_ComparisonsLeaveStorageUnchanged ==
  [][ComparisonStep => UNCHANGED <<users, faceSamples, counters>>]_vars

\* C22, witness: a face login has been accepted against an enrolled user.
C22_Witness ==
  /\ resp.op = "login" /\ resp.status = 200
  /\ \E i \in 1..Len(users) :
       users[i].id = resp.token.user_id /\ users[i].faceDescriptor # Null
  /\ faceSamples # <<>>

\* ----------------------------------------------- the authentication page
\* No face login has been sent by the page.
FaceLoginNeverSent == page.sent # "face"

\* C23, as claimed: users can log in with their face: once the camera has
\* reported a face and the user has submitted a valid e-mail address in face
\* mode, the login handler obtains a descriptor from the camera's video
\* element and sends a face-login request.
C23_AsClaimed == (page.invoked = "login") ~> (page.sent = "face")

\* C24, as claimed: the all-zero placeholder descriptor is never used for
\* matching: it is stored neither as a user's canonical descriptor nor as a
\* face sample.
C24_AsClaimed ==
  /\ \A i \in 1..Len(users) :
       users[i].faceDescriptor # descriptorToArray(placeholderDescriptor)
  /\ \A i \in 1..Len(faceSamples) :
       faceSamples[i].descriptor # descriptorToArray(placeholderDescriptor)

C30_AuthenticatingIsSetBack == page.isAuthenticating ~> ~page.isAuthenticating

\* C30, witness: a registration has failed, its handler has returned and
\* isAuthenticating is false again.
C30_Witness ==
  /\ page.sent = "register" /\ page.handler = "none"
  /\ page.toast = "failed" /\ ~page.loggedIn
  /\ ~page.isAuthenticating

\* ---------------------------------------------------- the camera viewport
\* C28, as claimed: once the cleanup of a run of the effect has run, no
\* detection interval created by that run is set and the stream the run
\* opened is stopped, whenever the cleanup comes.
C28_AsClaimed ==
  \A r \in 1..Len(camera.runs) :
    camera.runs[r].cleaned
      => /\ ~camera.runs[r].interval
         /\ camera.runs[r].stream \notin camera.live

====
